---------------------------- MODULE Spec2Model ----------------------------
(***************************************************************************)
(* Model of the ABEND listing path of koushalkh/sample-fastapi:            *)
(*   app/utils/pagination.py     cursor codec                              *)
(*   app/models/abend.py         GetAbendsFilter (ingress validation)      *)
(*   app/core/abend_service.py   AbendService.get_abends                   *)
(*   app/dal/abend_repository.py get_abends_for_date,                      *)
(*                               get_abends_by_date_range,                 *)
(*                               get_abends_unified                        *)
(*                                                                         *)
(* Python values are modelled as records of one fixed shape (PyVal) so     *)
(* that values of different Python types can be compared.  Strings are     *)
(* sequences of character codes; bytes are sequences of 0..255.            *)
(***************************************************************************)
EXTENDS Integers, Sequences, FiniteSets, TLC

(***************************************************************************)
(* Bounds of the model.                                                    *)
(***************************************************************************)
NDates == 3        \* calendar dates with a partition in the index
MaxPerDay == 2     \* records per date partition
MaxLimit == 2      \* largest page limit requested
MaxPages == 4      \* longest chain of calls followed
MaxTrunc == 2      \* characters cut off an encoded cursor to corrupt it

Min(a, b) == IF a < b THEN a ELSE b

(***************************************************************************)
(* Python values.                                                          *)
(*   t      the Python type                                                *)
(*   n      the number of an int / bool                                    *)
(*   s      the characters of a str, the literal of a float, the str()     *)
(*          of any other object                                            *)
(*   items  the elements of a list (k = <<>>) or the items of a dict,      *)
(*          kept sorted by key: dict equality ignores insertion order      *)
(***************************************************************************)
PyVal(t, n, s, items) == [t |-> t, n |-> n, s |-> s, items |-> items]
PyNone == PyVal("none", 0, <<>>, <<>>)
PyInt(i) == PyVal("int", i, <<>>, <<>>)
PyBool(b) == PyVal("bool", IF b THEN 1 ELSE 0, <<>>, <<>>)
PyStr(s) == PyVal("str", 0, s, <<>>)
PyFloat(lit) == PyVal("float", 0, lit, <<>>)
Item(k, v) == [k |-> k, val |-> v]

PyList(vs) ==
  PyVal("list", 0, <<>>,
        IF vs = <<>> THEN <<>> ELSE [i \in 1..Len(vs) |-> Item(<<>>, vs[i])])

\* a < b in the order Python compares str (by code point)
StrLess(a, b) ==
  \E i \in 1..(Min(Len(a), Len(b)) + 1) :
     /\ \A j \in 1..(i - 1) : a[j] = b[j]
     /\ \/ i > Len(a) /\ i <= Len(b)
        \/ i <= Len(a) /\ i <= Len(b) /\ a[i] < b[i]

EmptyDict == PyVal("dict", 0, <<>>, <<>>)

\* d[k] = v
DictSet(d, k, v) ==
  LET before == SelectSeq(d.items, LAMBDA it : StrLess(it.k, k))
      after == SelectSeq(d.items, LAMBDA it : StrLess(k, it.k))
  IN PyVal("dict", 0, <<>>, before \o <<Item(k, v)>> \o after)

\* k in d
DictHas(d, k) == \E i \in 1..Len(d.items) : d.items[i].k = k

\* d.get(k)
DictGet(d, k) ==
  IF DictHas(d, k)
  THEN d.items[CHOOSE i \in 1..Len(d.items) : d.items[i].k = k].val
  ELSE PyNone

\* bool(v)
Truthy(v) ==
  CASE v.t = "none" -> FALSE
    [] v.t \in {"int", "bool"} -> v.n /= 0
    [] v.t = "str" -> v.s /= <<>>
    [] v.t \in {"list", "dict"} -> v.items /= <<>>
    [] OTHER -> TRUE

(***************************************************************************)
(* String constants of the source.                                         *)
(***************************************************************************)
K_resume_date_index == <<114, 101, 115, 117, 109, 101, 95, 100, 97, 116, 101, 95, 105, 110, 100, 101, 120>>  \* "resume_date_index"
K_inner_last_key == <<105, 110, 110, 101, 114, 95, 108, 97, 115, 116, 95, 107, 101, 121>>  \* "inner_last_key"
K_abended_date == <<97, 98, 101, 110, 100, 101, 100, 95, 100, 97, 116, 101>>  \* "abended_date"
K_abended_at == <<97, 98, 101, 110, 100, 101, 100, 95, 97, 116>>  \* "abended_at"
K_trackingID == <<116, 114, 97, 99, 107, 105, 110, 103, 73, 68>>  \* "trackingID"
K_record_type == <<114, 101, 99, 111, 114, 100, 95, 116, 121, 112, 101>>  \* "record_type"
K_S == <<83>>  \* "S"
V_ABEND == <<65, 66, 69, 78, 68>>  \* "ABEND"
Lit_null == <<110, 117, 108, 108>>  \* "null"
Lit_true == <<116, 114, 117, 101>>  \* "true"
Lit_false == <<102, 97, 108, 115, 101>>  \* "false"
Lit_NaN == <<78, 97, 78>>  \* "NaN"
Lit_Infinity == <<73, 110, 102, 105, 110, 105, 116, 121>>  \* "Infinity"
B64Alphabet == <<65, 66, 67, 68, 69, 70, 71, 72, 73, 74, 75, 76, 77, 78, 79, 80, 81, 82, 83, 84, 85, 86, 87, 88, 89, 90, 97, 98, 99, 100, 101, 102, 103, 104, 105, 106, 107, 108, 109, 110, 111, 112, 113, 114, 115, 116, 117, 118, 119, 120, 121, 122, 48, 49, 50, 51, 52, 53, 54, 55, 56, 57, 43, 47>>  \* "A-Za-z0-9+/"

(***************************************************************************)
(* json.dumps(obj, default=str, sort_keys=True)                            *)
(* Separators are the defaults ", " and ": "; ensure_ascii is on.          *)
(* Characters are below 65536 (no surrogate pairs).                        *)
(***************************************************************************)
RECURSIVE IntDigits(_)
IntDigits(n) ==
  IF n < 10 THEN <<48 + n>> ELSE IntDigits(n \div 10) \o <<48 + (n % 10)>>

IntToStr(n) == IF n < 0 THEN <<45>> \o IntDigits(-n) ELSE IntDigits(n)

HexDigit(h) == IF h < 10 THEN 48 + h ELSE 87 + h

Hex4(c) ==
  <<HexDigit(c \div 4096), HexDigit((c \div 256) % 16),
    HexDigit((c \div 16) % 16), HexDigit(c % 16)>>

EscapeChar_Raw(c) == <<c>>

EscapeChar(c) ==
  CASE c = 34 -> <<92, 34>>
    [] c = 92 -> <<92, 92>>
    [] c = 10 -> <<92, 110>>
    [] c = 13 -> <<92, 114>>
    [] c = 9 -> <<92, 116>>
    [] c = 8 -> <<92, 98>>
    [] c = 12 -> <<92, 102>>
    [] c < 32 /\ c \notin {8, 9, 10, 12, 13} -> <<92, 117>> \o Hex4(c)
    [] c > 127 -> <<92, 117>> \o Hex4(c)
    [] OTHER -> <<c>>

\* the concatenation of ss[lo..hi] (halving keeps the evaluation shallow)
RECURSIVE Flatten(_, _, _)
Flatten(ss, lo, hi) ==
  IF lo > hi THEN <<>>
  ELSE IF lo = hi THEN ss[lo]
  ELSE LET mid == (lo + hi) \div 2
       IN Flatten(ss, lo, mid) \o Flatten(ss, mid + 1, hi)

Escape(s) == Flatten([i \in 1..Len(s) |-> EscapeChar(s[i])], 1, Len(s))

JsonString(s) == <<34>> \o Escape(s) \o <<34>>

RECURSIVE JsonDumps(_), DumpItems(_, _, _)
DumpItems(items, i, isDict) ==
  IF i > Len(items) THEN <<>>
  ELSE (IF i > 1 THEN <<44, 32>> ELSE <<>>)
       \o (IF isDict THEN JsonString(items[i].k) \o <<58, 32>> ELSE <<>>)
       \o JsonDumps(items[i].val)
       \o DumpItems(items, i + 1, isDict)

JsonDumps(v) ==
  CASE v.t = "none" -> Lit_null
    [] v.t = "bool" -> IF v.n = 1 THEN Lit_true ELSE Lit_false
    [] v.t = "int" -> IntToStr(v.n)
    [] v.t = "float" -> v.s
    [] v.t = "str" -> JsonString(v.s)
    [] v.t = "list" -> <<91>> \o DumpItems(v.items, 1, FALSE) \o <<93>>
    [] v.t = "dict" -> <<123>> \o DumpItems(v.items, 1, TRUE) \o <<125>>
    [] OTHER -> JsonString(v.s)          \* default=str

(***************************************************************************)
(* str.encode('utf-8') and bytes.decode('utf-8')                           *)
(***************************************************************************)
Utf8EncodeChar(c) ==
  CASE c < 128 -> <<c>>
    [] c >= 128 /\ c < 2048 -> <<192 + (c \div 64), 128 + (c % 64)>>
    [] OTHER -> <<224 + (c \div 4096), 128 + ((c \div 64) % 64), 128 + (c % 64)>>

Utf8Encode(s) == Flatten([i \in 1..Len(s) |-> Utf8EncodeChar(s[i])], 1, Len(s))

\* The decoder as a machine over the bytes: pending continuation bytes of
\* the character in progress, cp its code point so far, lo..hi the range
\* allowed for the next continuation byte.
Utf8Start == [ok |-> TRUE, pending |-> 0, cp |-> 0, lo |-> 128, hi |-> 191,
              s |-> <<>>]

Utf8Step(st, c) ==
  IF ~st.ok THEN st
  ELSE IF st.pending = 0
  THEN CASE c < 128 -> [st EXCEPT !.s = Append(@, c)]
         [] c >= 194 /\ c <= 223 ->
              [st EXCEPT !.pending = 1, !.cp = c - 192]
         [] c >= 224 /\ c <= 239 ->
              [st EXCEPT !.pending = 2, !.cp = c - 224,
                         !.lo = IF c = 224 THEN 160 ELSE 128,
                         !.hi = IF c = 237 THEN 159 ELSE 191]
         [] c >= 240 /\ c <= 244 ->
              [st EXCEPT !.pending = 3, !.cp = c - 240,
                         !.lo = IF c = 240 THEN 144 ELSE 128,
                         !.hi = IF c = 244 THEN 143 ELSE 191]
         [] OTHER -> [st EXCEPT !.ok = FALSE]
  ELSE IF c < st.lo \/ c > st.hi THEN [st EXCEPT !.ok = FALSE]
  ELSE LET cp == st.cp * 64 + (c - 128) IN
       [st EXCEPT !.pending = @ - 1, !.cp = cp, !.lo = 128, !.hi = 191,
                  !.s = IF st.pending = 1 THEN Append(@, cp) ELSE @]

RECURSIVE Utf8Fold(_, _, _, _)
Utf8Fold(b, lo, hi, st) ==
  IF lo > hi THEN st
  ELSE IF lo = hi THEN Utf8Step(st, b[lo])
  ELSE LET mid == (lo + hi) \div 2
           left == Utf8Fold(b, lo, mid, st)
       IN IF left.ok THEN Utf8Fold(b, mid + 1, hi, left) ELSE left

\* [ok, s]: ok is FALSE where bytes.decode raises UnicodeDecodeError
Utf8Decode(b) ==
  LET st == Utf8Fold(b, 1, Len(b), Utf8Start)
  IN [ok |-> st.ok /\ st.pending = 0, s |-> st.s]

(***************************************************************************)
(* base64.b64encode / base64.b64decode (binascii, non-strict mode)         *)
(***************************************************************************)
B64Encode(b) ==
  LET n == Len(b)
      groups == (n + 2) \div 3
      byte(i) == IF i <= n THEN b[i] ELSE 0
      quad(g) == byte(3 * g + 1) * 65536 + byte(3 * g + 2) * 256 + byte(3 * g + 3)
      sextet(g, p) ==
        CASE p = 0 -> quad(g) \div 262144
          [] p = 1 -> (quad(g) \div 4096) % 64
          [] p = 2 -> (quad(g) \div 64) % 64
          [] OTHER -> quad(g) % 64
      char(j) ==
        LET g == (j - 1) \div 4
            p == (j - 1) % 4
        IN IF (p = 2 /\ 3 * g + 2 > n) \/ (p = 3 /\ 3 * g + 3 > n)
           THEN 61                                  \* "="
           ELSE B64Alphabet[sextet(g, p) + 1]
  IN IF n = 0 THEN <<>> ELSE [j \in 1..(4 * groups) |-> char(j)]

\* the value of a base64 digit, 64 for a character outside the alphabet
B64Value(c) ==
  IF \E k \in 1..64 : B64Alphabet[k] = c
  THEN (CHOOSE k \in 1..64 : B64Alphabet[k] = c) - 1
  ELSE 64

\* binascii.a2b_base64 as a machine over the characters: characters
\* outside the alphabet are skipped, a complete pad sequence ends the input
\* (done), an incomplete quad at the end is an error.
B64Start == [quad_pos |-> 0, leftchar |-> 0, pads |-> 0, done |-> FALSE,
             bytes |-> <<>>]

B64Step(st, c) ==
  IF st.done THEN st
  ELSE IF c = 61                            \* "="
  THEN IF st.quad_pos >= 2 /\ st.quad_pos + st.pads + 1 >= 4
       THEN [st EXCEPT !.done = TRUE]
       ELSE [st EXCEPT !.pads = IF st.quad_pos >= 2 THEN @ + 1 ELSE @]
  ELSE LET v == B64Value(c) IN
    IF v >= 64 THEN st
    ELSE CASE st.quad_pos = 0 ->
                [st EXCEPT !.quad_pos = 1, !.leftchar = v, !.pads = 0]
           [] st.quad_pos = 1 ->
                [st EXCEPT !.quad_pos = 2, !.leftchar = v % 16, !.pads = 0,
                           !.bytes = Append(@, st.leftchar * 4 + (v \div 16))]
           [] st.quad_pos = 2 ->
                [st EXCEPT !.quad_pos = 3, !.leftchar = v % 4, !.pads = 0,
                           !.bytes = Append(@, st.leftchar * 16 + (v \div 4))]
           [] OTHER ->
                [st EXCEPT !.quad_pos = 0, !.leftchar = 0, !.pads = 0,
                           !.bytes = Append(@, st.leftchar * 64 + v)]

RECURSIVE B64Fold(_, _, _, _)
B64Fold(a, lo, hi, st) ==
  IF lo > hi THEN st
  ELSE IF lo = hi THEN B64Step(st, a[lo])
  ELSE LET mid == (lo + hi) \div 2
           left == B64Fold(a, lo, mid, st)
       IN IF left.done THEN left ELSE B64Fold(a, mid + 1, hi, left)

\* [ok, bytes]: ok is FALSE where b64decode raises binascii.Error
B64Decode(a) ==
  LET st == B64Fold(a, 1, Len(a), B64Start)
  IN [ok |-> st.done \/ st.quad_pos = 0, bytes |-> st.bytes]

(***************************************************************************)
(* json.loads(text)                                                        *)
(* A parse returns [ok, val, pos]: pos is the index after the value;       *)
(* ok is FALSE where the decoder raises JSONDecodeError.                   *)
(***************************************************************************)
ParseFail == [ok |-> FALSE, val |-> PyNone, pos |-> 0]
ParseOk(v, p) == [ok |-> TRUE, val |-> v, pos |-> p]

IsWs(c) == c \in {32, 9, 10, 13}
IsDigit(c) == c >= 48 /\ c <= 57

\* the first index from i on that holds no whitespace
SkipWs(t, i) ==
  CHOOSE j \in i..(Len(t) + 1) :
     /\ j = Len(t) + 1 \/ ~IsWs(t[j])
     /\ \A k \in i..(j - 1) : IsWs(t[k])

\* the first index from i on that holds no digit
DigitsEnd(t, i) ==
  CHOOSE j \in i..(Len(t) + 1) :
     /\ j = Len(t) + 1 \/ ~IsDigit(t[j])
     /\ \A k \in i..(j - 1) : IsDigit(t[k])

StartsWith(t, i, lit) ==
  /\ i + Len(lit) - 1 <= Len(t)
  /\ \A k \in 1..Len(lit) : t[i + k - 1] = lit[k]

HexVal(c) ==
  CASE c >= 48 /\ c <= 57 -> c - 48
    [] c >= 65 /\ c <= 70 -> c - 55
    [] c >= 97 /\ c <= 102 -> c - 87
    [] OTHER -> 0 - 1

RECURSIVE StrToNat(_, _, _)
StrToNat(t, i, j) ==
  IF j < i THEN 0 ELSE StrToNat(t, i, j - 1) * 10 + (t[j] - 48)

\* scanstring: i is the index after the opening quote
RECURSIVE ParseStringBody(_, _, _)
ParseStringBody(t, i, acc) ==
  IF i > Len(t) THEN ParseFail
  ELSE LET c == t[i] IN
    CASE c = 34 -> ParseOk(PyStr(acc), i + 1)
      [] c = 92 ->
           IF i + 1 > Len(t) THEN ParseFail
           ELSE LET e == t[i + 1] IN
             CASE e = 34 -> ParseStringBody(t, i + 2, Append(acc, 34))
               [] e = 92 -> ParseStringBody(t, i + 2, Append(acc, 92))
               [] e = 47 -> ParseStringBody(t, i + 2, Append(acc, 47))
               [] e = 98 -> ParseStringBody(t, i + 2, Append(acc, 8))
               [] e = 102 -> ParseStringBody(t, i + 2, Append(acc, 12))
               [] e = 110 -> ParseStringBody(t, i + 2, Append(acc, 10))
               [] e = 114 -> ParseStringBody(t, i + 2, Append(acc, 13))
               [] e = 116 -> ParseStringBody(t, i + 2, Append(acc, 9))
               [] e = 117 ->
                    IF /\ i + 5 <= Len(t)
                       /\ \A k \in 2..5 : HexVal(t[i + k]) >= 0
                    THEN ParseStringBody(t, i + 6,
                           Append(acc, HexVal(t[i + 2]) * 4096
                                       + HexVal(t[i + 3]) * 256
                                       + HexVal(t[i + 4]) * 16
                                       + HexVal(t[i + 5])))
                    ELSE ParseFail
               [] OTHER -> ParseFail
      [] c < 32 -> ParseFail
      [] OTHER -> ParseStringBody(t, i + 1, Append(acc, c))

\* NUMBER_RE = (-?(?:0|[1-9]\d*))(\.\d+)?([eE][-+]?\d+)?
\* neg: a minus sign at i; d0: the first digit; intEnd, fracEnd, expEnd:
\* the index after the integer part, the fraction and the exponent
ParseNumber(t, i) ==
  LET Number(neg, d0, intEnd, expEnd) ==
        IF expEnd > intEnd
        THEN ParseOk(PyFloat(SubSeq(t, i, expEnd - 1)), expEnd)
        ELSE IF neg THEN ParseOk(PyInt(0 - StrToNat(t, d0, intEnd - 1)), intEnd)
        ELSE ParseOk(PyInt(StrToNat(t, d0, intEnd - 1)), intEnd)
      Exponent(fracEnd, e0) ==
        IF /\ fracEnd <= Len(t) /\ t[fracEnd] \in {69, 101}
           /\ e0 <= Len(t) /\ IsDigit(t[e0])
        THEN DigitsEnd(t, e0) ELSE fracEnd
      ExpEnd(fracEnd) ==
        Exponent(fracEnd,
                 IF fracEnd + 1 <= Len(t) /\ t[fracEnd + 1] \in {43, 45}
                 THEN fracEnd + 2 ELSE fracEnd + 1)
      FracEnd(intEnd) ==
        IF /\ intEnd + 1 <= Len(t) /\ t[intEnd] = 46
           /\ IsDigit(t[intEnd + 1])
        THEN DigitsEnd(t, intEnd + 1) ELSE intEnd
      Integer(neg, d0, intEnd) ==
        Number(neg, d0, intEnd, ExpEnd(FracEnd(intEnd)))
      Digits(neg, d0) ==
        IF ~(d0 <= Len(t) /\ IsDigit(t[d0])) THEN ParseFail
        ELSE Integer(neg, d0, IF t[d0] = 48 THEN d0 + 1 ELSE DigitsEnd(t, d0))
      Sign(neg) == Digits(neg, IF neg THEN i + 1 ELSE i)
  IN Sign(i <= Len(t) /\ t[i] = 45)

RECURSIVE ParseValue(_, _), ParseMembers(_, _, _), ParseElements(_, _, _)
\* JSONObject after a key's opening quote at index i - 1: the key, the
\* colon, the value, then "}" or a comma and the next key
ParseMembers(t, i, d) ==
  LET NextKey(d2, q) ==
        IF q > Len(t) \/ t[q] /= 34 THEN ParseFail
        ELSE ParseMembers(t, q + 1, d2)
      Separator(d2, nxt) ==
        IF nxt > Len(t) THEN ParseFail
        ELSE IF t[nxt] = 125 THEN ParseOk(d2, nxt + 1)
        ELSE IF t[nxt] /= 44 THEN ParseFail
        ELSE NextKey(d2, SkipWs(t, nxt + 1))
      Member(key, v) ==
        IF ~v.ok THEN ParseFail
        ELSE Separator(DictSet(d, key.val.s, v.val), SkipWs(t, v.pos))
      Colon(key, colon) ==
        IF colon > Len(t) \/ t[colon] /= 58 THEN ParseFail
        ELSE Member(key, ParseValue(t, SkipWs(t, colon + 1)))
      Key(key) ==
        IF ~key.ok THEN ParseFail ELSE Colon(key, SkipWs(t, key.pos))
  IN Key(ParseStringBody(t, i, <<>>))

\* JSONArray with the next element at index i
ParseElements(t, i, vs) ==
  LET Separator(vs2, nxt) ==
        IF nxt > Len(t) THEN ParseFail
        ELSE IF t[nxt] = 93 THEN ParseOk(PyList(vs2), nxt + 1)
        ELSE IF t[nxt] /= 44 THEN ParseFail
        ELSE ParseElements(t, SkipWs(t, nxt + 1), vs2)
      Element(v) ==
        IF ~v.ok THEN ParseFail
        ELSE Separator(Append(vs, v.val), SkipWs(t, v.pos))
  IN Element(ParseValue(t, i))

\* scan_once
ParseValue(t, i) ==
  LET Object(q) ==
        IF q > Len(t) THEN ParseFail
        ELSE IF t[q] = 125 THEN ParseOk(EmptyDict, q + 1)
        ELSE IF t[q] /= 34 THEN ParseFail
        ELSE ParseMembers(t, q + 1, EmptyDict)
      Array(q) ==
        IF q > Len(t) THEN ParseFail
        ELSE IF t[q] = 93 THEN ParseOk(PyList(<<>>), q + 1)
        ELSE ParseElements(t, q, <<>>)
      Number(c, num) ==
        IF num.ok THEN num
        ELSE IF c = 78 /\ StartsWith(t, i, Lit_NaN)
             THEN ParseOk(PyFloat(Lit_NaN), i + 3)
        ELSE IF c = 73 /\ StartsWith(t, i, Lit_Infinity)
             THEN ParseOk(PyFloat(Lit_Infinity), i + 8)
        ELSE IF c = 45 /\ StartsWith(t, i + 1, Lit_Infinity)
             THEN ParseOk(PyFloat(<<45>> \o Lit_Infinity), i + 9)
        ELSE ParseFail
      Value(c) ==
        CASE c = 34 -> ParseStringBody(t, i + 1, <<>>)
          [] c = 123 -> Object(SkipWs(t, i + 1))
          [] c = 91 -> Array(SkipWs(t, i + 1))
          [] c = 110 /\ StartsWith(t, i, Lit_null) -> ParseOk(PyNone, i + 4)
          [] c = 116 /\ StartsWith(t, i, Lit_true) ->
               ParseOk(PyBool(TRUE), i + 4)
          [] c = 102 /\ StartsWith(t, i, Lit_false) ->
               ParseOk(PyBool(FALSE), i + 5)
          [] OTHER -> Number(c, ParseNumber(t, i))
  IN IF i > Len(t) THEN ParseFail ELSE Value(t[i])

\* [ok, val]: the whole text is one JSON value between optional whitespace
JsonLoads(text) ==
  LET Whole(r) ==
        IF r.ok /\ SkipWs(text, r.pos) = Len(text) + 1
        THEN [ok |-> TRUE, val |-> r.val]
        ELSE [ok |-> FALSE, val |-> PyNone]
  IN IF text /= <<>> /\ text[1] = 65279      \* startswith of the byte order mark
     THEN Whole(ParseFail)
     ELSE Whole(ParseValue(text, SkipWs(text, 1)))

(***************************************************************************)
(* app/utils/pagination.py                                                 *)
(***************************************************************************)
\* encode_cursor taking its except branch: None for every key
EncodeCursor_Failed(pagination_key) == PyNone

\* encode_cursor: None for a falsy key, else base64 of its sorted JSON.
\* json.dumps cannot fail on the values modelled (default=str covers every
\* type), so the except branch is not reached.
EncodeCursor(pagination_key) ==
  IF ~Truthy(pagination_key) THEN PyNone
  ELSE PyStr(B64Encode(Utf8Encode(JsonDumps(pagination_key))))

\* decode_cursor: None for a falsy cursor and for every exception raised by
\* b64decode, bytes.decode or json.loads; else whatever json.loads returns.
DecodeCursor(cursor) ==
  LET Loaded(loaded) == IF ~loaded.ok THEN PyNone ELSE loaded.val
      Data(cursor_data) ==
        IF ~cursor_data.ok THEN PyNone ELSE Loaded(JsonLoads(cursor_data.s))
      Bytes(cursor_bytes) ==
        IF ~cursor_bytes.ok THEN PyNone
        ELSE Data(Utf8Decode(cursor_bytes.bytes))
  IN IF ~Truthy(cursor) THEN PyNone
     ELSE Bytes(B64Decode(Utf8Encode(cursor.s)))

\* is_valid_cursor
IsValidCursor(cursor) ==
  IF cursor.t = "none" THEN TRUE
  ELSE IF cursor.t /= "str" \/ cursor.s = <<>> THEN FALSE
  ELSE DecodeCursor(cursor).t /= "none"

(***************************************************************************)
(* Dates.  A Python date is modelled by its day number within 2024         *)
(* (0 = 2024-01-01); the dates of the model lie in a window of NDates days *)
(* that starts at FirstDate and crosses a month boundary.                  *)
(***************************************************************************)
FirstDate == 29                       \* 2024-01-30
Dates == FirstDate..(FirstDate + NDates - 1)
DaysBeforeMonth == <<0, 31, 60, 91, 121, 152, 182, 213, 244, 274, 305, 335, 366>>

PyDate(d) == PyVal("date", d, <<>>, <<>>)

Digit2(n) == <<48 + (n \div 10), 48 + (n % 10)>>

V_2024 == <<50, 48, 50, 52, 45>>  \* "2024-"
V_TimePrefix == <<84, 48, 48, 58, 48, 48, 58, 48>>  \* "T00:00:0"
V_UtcOffset == <<43, 48, 48, 58, 48, 48>>  \* "+00:00"
V_TrackingPrefix == <<65, 66, 69, 78, 68, 95>>  \* "ABEND_"
V_PAY == <<80, 65, 89>>  \* "PAY"
V_GL == <<71, 76>>  \* "GL"
V_HIGH == <<72, 73, 71, 72>>  \* "HIGH"
V_LOW == <<76, 79, 87>>  \* "LOW"
V_payments == <<112, 97, 121, 109, 101, 110, 116, 115>>  \* "payments"
V_claims == <<99, 108, 97, 105, 109, 115>>  \* "claims"
V_ABEND_REGISTERED == <<65, 66, 69, 78, 68, 95, 82, 69, 71, 73, 83, 84, 69, 82, 69, 68>>  \* "ABEND_REGISTERED"
V_INC == <<73, 78, 67, 48>>  \* "INC0"
V_S0C7 == <<83, 48, 67, 55, 32, 100, 97, 116, 97, 32, 101, 120, 99, 101, 112, 116, 105, 111, 110>>  \* "S0C7 data exception"
V_PA == <<80, 65>>  \* "PA"

\* date.strftime("%Y-%m-%d")
StrfTime(d) ==
  LET m == CHOOSE k \in 1..12 : DaysBeforeMonth[k] <= d /\ d < DaysBeforeMonth[k + 1]
  IN V_2024 \o Digit2(m) \o <<45>> \o Digit2(d - DaysBeforeMonth[m] + 1)

\* date.fromisoformat(v) for the YYYY-MM-DD form within 2024:
\* [ok, d], ok is FALSE where it raises ValueError
FromIsoFormat(v) ==
  LET wellFormed == /\ Len(v) = 10
                    /\ SubSeq(v, 1, 5) = V_2024
                    /\ v[8] = 45
                    /\ \A k \in {6, 7, 9, 10} : IsDigit(v[k])
      m == StrToNat(v, 6, 7)
      day == StrToNat(v, 9, 10)
  IN IF /\ wellFormed /\ m >= 1 /\ m <= 12 /\ day >= 1
        /\ day <= DaysBeforeMonth[m + 1] - DaysBeforeMonth[m]
     THEN [ok |-> TRUE, d |-> DaysBeforeMonth[m] + day - 1]
     ELSE [ok |-> FALSE, d |-> 0]

\* the date_list of get_abends_by_date_range: every date from start_date to
\* end_date as a string, empty when end_date is before start_date
DateList(start_date, end_date) ==
  IF end_date < start_date THEN <<>>
  ELSE [i \in 1..(end_date - start_date + 1) |-> StrfTime(start_date + i - 1)]

(***************************************************************************)
(* State.                                                                  *)
(***************************************************************************)
VARIABLES
  today,        \* datetime.now(timezone.utc).date()
  table,        \* the items of AbendDynamoTable
  failing,      \* hash keys of AbendedDateIndex whose query raises
  eager,        \* the index returns a last key whenever a query stops at
                \* its limit, also when nothing is left behind that key
  req,          \* the list query of the chain of calls being followed
  lastKey,      \* last_evaluated_key passed to the latest call
  res,          \* outcome of the latest call
  seen,         \* trackingIDs returned by the calls of the chain, in order
  keys,         \* continuation keys returned by the earlier calls
  pages,        \* calls made in the chain
  queryFailed,  \* some index query of the chain raised
  cop,          \* codec: the operation applied last
  cin,          \* codec: its argument
  cout,         \* codec: its result
  ctoken,       \* codec: the token the argument was encoded from, if any
  http,         \* ingress: query parameters of the latest list request
  resp,         \* ingress: its outcome
  wide,         \* the list query of req without its additional filter,
                \* and the outcome of that query
  store,        \* write path: the items of AbendDynamoTable, every attribute
  audits,       \* write path: the audit log entries
  procs,        \* write path: the call each worker is in the middle of
  clock,        \* write path: datetime.now(timezone.utc), as an instant
  last,         \* write path: the call that returned last
  both,         \* two dates listed by the single-day path and by the
                \* date-range path, and the outcomes
  sops,         \* the items of SOPDynamoTable
  sopProcs,     \* SOP: the update_sop call each worker is in the middle of
  sopLast,      \* SOP: the call that returned last
  gitlab        \* GitLabClient._make_request_with_retry: the call under way

envVars == <<today, table, failing, eager>>
chainVars == <<req, lastKey, res, seen, keys, pages, queryFailed>>
codecVars == <<cop, cin, cout, ctoken>>
ingressVars == <<http, resp>>
filterVars == <<wide>>
writeVars == <<store, audits, procs, clock, last>>
pathVars == <<both>>
sopVars == <<sops, sopProcs, sopLast>>
gitVars == <<gitlab>>
vars == <<today, table, failing, eager, req, lastKey, res, seen, keys, pages,
          queryFailed, cop, cin, cout, ctoken, http, resp, wide, store,
          audits, procs, clock, last, both, sops, sopProcs, sopLast, gitlab>>

(***************************************************************************)
(* The stored ABEND items and the AbendedDateIndex.                        *)
(***************************************************************************)
\* the i-th item of date d, as create_abend stores it
AbendItem(d, i) ==
  LET job == IF i = 1 THEN V_PAY ELSE V_GL IN
  [ trackingID |-> PyStr(V_TrackingPrefix \o job \o <<95>> \o Digit2(d) \o <<48 + i>>),
    record_type |-> PyStr(V_ABEND),
    abended_date |-> PyStr(StrfTime(d)),
    abended_at |-> PyStr(StrfTime(d) \o V_TimePrefix \o <<48 + i>> \o V_UtcOffset),
    job_name |-> PyStr(job),
    job_id |-> PyStr(job),
    order_id |-> PyNone,
    incident_number |-> PyStr(V_INC \o <<48 + i>>),
    domain_area |-> PyStr(IF d % 2 = 0 THEN V_payments ELSE V_claims),
    adr_status |-> PyStr(V_ABEND_REGISTERED),
    severity |-> PyStr(IF (d + i) % 2 = 0 THEN V_HIGH ELSE V_LOW),
    abend_reason |-> IF i = 2 THEN PyStr(V_S0C7) ELSE PyNone ]

\* the table that holds counts[d] items on each date d
TableOf(counts) == UNION { { AbendItem(d, i) : i \in 1..counts[d] } : d \in Dates }

\* s contains t (a DynamoDB contains() on strings)
Contains(s, t) ==
  \E i \in 1..(Len(s) - Len(t) + 1) : SubSeq(s, i, i + Len(t) - 1) = t

\* AbendDynamoTable.<attr> == value, for a string value
AttrEq(attr, value) == attr.t = "str" /\ attr.s = value.s

\* AbendDynamoTable.<attr>.contains(term): false for a missing attribute
AttrContains(attr, term) == attr.t = "str" /\ Contains(attr.s, term.s)

\* The filter_condition built by get_abends_for_date from the filters
\* f = [domain_area, adr_status, severity, search_term], applied to an item.
\* adr_status and severity hold the .value of the enum.
ForDateFilter(item, f) ==
  /\ Truthy(f.domain_area) => AttrEq(item.domain_area, f.domain_area)
  /\ Truthy(f.adr_status) => AttrEq(item.adr_status, f.adr_status)
  /\ Truthy(f.severity) => AttrEq(item.severity, f.severity)
  /\ Truthy(f.search_term) =>
       \/ AttrContains(item.job_name, f.search_term)
       \/ AttrContains(item.trackingID, f.search_term)
       \/ AttrContains(item.incident_number, f.search_term)
       \/ AttrContains(item.order_id, f.search_term)
       \/ AttrContains(item.job_id, f.search_term)

\* The filter_condition built by get_abends_by_date_range.
DateRangeFilter(item, f) ==
  /\ Truthy(f.domain_area) => AttrEq(item.domain_area, f.domain_area)
  /\ Truthy(f.adr_status) => AttrEq(item.adr_status, f.adr_status)
  /\ Truthy(f.severity) => AttrEq(item.severity, f.severity)
  /\ Truthy(f.search_term) =>
       \/ AttrContains(item.job_name, f.search_term)
       \/ AttrContains(item.trackingID, f.search_term)
       \/ AttrContains(item.incident_number, f.search_term)
       \/ AttrContains(item.order_id, f.search_term)
       \/ AttrContains(item.abend_reason, f.search_term)

\* the items of S from the greatest abended_at down (scan_index_forward
\* = False); the range key is a string and is compared as one
RECURSIVE Descending(_)
Descending(S) ==
  IF S = {} THEN <<>>
  ELSE LET top == CHOOSE r \in S :
                    \A q \in S : q = r \/ StrLess(q.abended_at.s, r.abended_at.s)
                                       \/ q.abended_at.s = r.abended_at.s
       IN <<top>> \o Descending(S \ {top})

\* the partition of AbendedDateIndex under a hash key
IndexPartition(hash_key) ==
  Descending({ r \in table : /\ r.record_type.s = V_ABEND
                             /\ r.abended_date = PyStr(hash_key) })

AttrS(s) == DictSet(EmptyDict, K_S, PyStr(s))

\* the last_evaluated_key of an index query that stopped at an item: the
\* index keys and the table keys of the item as DynamoDB attribute values
KeyOfItem(item) ==
  DictSet(DictSet(DictSet(DictSet(EmptyDict,
    K_abended_date, AttrS(item.abended_date.s)),
    K_abended_at, AttrS(item.abended_at.s)),
    K_trackingID, AttrS(item.trackingID.s)),
    K_record_type, AttrS(item.record_type.s))

IsAttrS(v) == v.t = "dict" /\ Len(v.items) = 1 /\ v.items[1].k = K_S
              /\ v.items[1].val.t = "str"

\* an exclusive start key the index accepts for a query on hash_key: a key
\* of the index schema that lies in the partition queried
IsStartKeyFor(key, hash_key) ==
  /\ key.t = "dict"
  /\ Len(key.items) = 4
  /\ \A k \in {K_abended_date, K_abended_at, K_trackingID, K_record_type} :
        DictHas(key, k) /\ IsAttrS(DictGet(key, k))
  /\ DictGet(key, K_abended_date) = AttrS(hash_key)

\* AbendDynamoTable.abended_date_index.query(hash_key, scan_index_forward =
\* False, limit, filter_condition, last_evaluated_key), iterated to its end.
\* [ok, items, last_evaluated_key]; ok is FALSE where the query raises.
\* filter_condition is the set of the items of the table the condition
\* accepts; start_key is PyNone when the keyword is not passed.
IndexQuery(hash_key, filter_condition, limit, start_key) ==
  IF hash_key \in failing
     \/ (start_key.t /= "none" /\ ~IsStartKeyFor(start_key, hash_key))
  THEN [ok |-> FALSE, items |-> <<>>, last_evaluated_key |-> PyNone]
  ELSE LET part == IndexPartition(hash_key)
           from == IF start_key.t = "none" THEN part
                   ELSE SelectSeq(part, LAMBDA r :
                          StrLess(r.abended_at.s,
                                  DictGet(DictGet(start_key, K_abended_at), K_S).s))
           hits == SelectSeq(from, LAMBDA r : r \in filter_condition)
           n == Min(limit, Len(hits))
           page == SubSeq(hits, 1, n)
       IN [ok |-> TRUE,
           items |-> page,
           last_evaluated_key |->
             IF n >= 1 /\ n = limit /\ (Len(hits) > limit \/ eager)
             THEN KeyOfItem(page[n])
             ELSE PyNone]

(***************************************************************************)
(* app/dal/abend_repository.py                                             *)
(* A call returns [status, exc, records, next_key, calls]: status is "ok"  *)
(* or "raise" (exc names the exception); calls lists the index queries the *)
(* call made, each with the limit it asked for, whether it returned (ok)   *)
(* or raised, and the number of records it returned.                       *)
(***************************************************************************)
\* datetime.fromisoformat(s) of "2024-MM-DDTHH:MM:SS+HH:MM" as the seconds
\* since 2024-01-01T00:00:00Z
FromIsoDateTime(s) ==
  LET local == FromIsoFormat(SubSeq(s, 1, 10)).d * 86400
               + StrToNat(s, 12, 13) * 3600 + StrToNat(s, 15, 16) * 60
               + StrToNat(s, 18, 19)
      offset == StrToNat(s, 21, 22) * 3600 + StrToNat(s, 24, 25) * 60
  IN IF s[20] = 45 THEN local + offset ELSE local - offset

\* _convert_to_abend_model
ConvertToAbendModel(item) ==
  [ trackingID |-> item.trackingID.s,
    jobID |-> item.job_id,
    jobName |-> item.job_name,
    adrStatus |-> item.adr_status,
    severity |-> item.severity,
    abendedAt |-> FromIsoDateTime(item.abended_at.s),
    domainArea |-> item.domain_area ]

ConvertAll(items) ==
  IF items = <<>> THEN <<>>
  ELSE [i \in 1..Len(items) |-> ConvertToAbendModel(items[i])]

Returned(records, next_key, calls) ==
  [status |-> "ok", exc |-> "", records |-> records, next_key |-> next_key,
   calls |-> calls]

Raised(exc, calls) ==
  [status |-> "raise", exc |-> exc, records |-> <<>>, next_key |-> PyNone,
   calls |-> calls]

QueryCall(hash_key, limit, start_key, results) ==
  [hash_key |-> hash_key, limit |-> limit, last_evaluated_key |-> start_key,
   ok |-> results.ok, returned |-> Len(results.items)]

\* get_abends_for_date
GetAbendsForDate(target_date, f, limit, last_evaluated_key) ==
  LET Result(results, calls) ==
        IF ~results.ok THEN Raised("StoreError", calls)
        ELSE Returned(ConvertAll(results.items), results.last_evaluated_key,
                      calls)
      Queried(date_str, start_key, results) ==
        Result(results, <<QueryCall(date_str, limit, start_key, results)>>)
      Query(date_str, start_key) ==
        Queried(date_str, start_key,
                IndexQuery(date_str, {r \in table : ForDateFilter(r, f)},
                           limit, start_key))
  IN Query(StrfTime(target_date),
           IF Truthy(last_evaluated_key) THEN last_evaluated_key ELSE PyNone)

\* all_records.sort(key=lambda x: x.abended_at, reverse=True): a stable
\* sort, records of equal abended_at keep their order
RECURSIVE SortByAbendedAtDesc(_)
SortByAbendedAtDesc(records) ==
  IF records = <<>> THEN <<>>
  ELSE LET rest == SortByAbendedAtDesc(Tail(records))
           x == Head(records)
           before == SelectSeq(rest, LAMBDA y : y.abendedAt > x.abendedAt)
           after == SelectSeq(rest, LAMBDA y : y.abendedAt <= x.abendedAt)
       IN before \o <<x>> \o after

\* the shortcut left out: a single date is walked like a range
IsSingleDate_NoShortcut(start_date, end_date) == FALSE

\* start_date == end_date: the single-date shortcut of
\* get_abends_by_date_range
IsSingleDate(start_date, end_date) == start_date = end_date

\* every partition asked for the whole limit
RemainingLimit_Whole(limit, total_collected) == limit

\* remaining_limit = limit - total_collected
RemainingLimit(limit, total_collected) == limit - total_collected

\* the next_page_key built when a date partition has more data
ResumeKey(date_index, day_last_key) ==
  DictSet(DictSet(EmptyDict, K_resume_date_index, PyInt(date_index)),
          K_inner_last_key, day_last_key)

\* The for loop of get_abends_by_date_range from the iteration date_index
\* (0-based, as enumerate counts the dates left after a resume) on, and the
\* statements after the loop.  Leaving the loop at "total_collected >=
\* limit" leaves next_page_key unassigned: reading it for the log line
\* raises UnboundLocalError, which the outer except re-raises.
RECURSIVE WalkDates(_, _, _, _, _, _, _, _)
WalkDates(date_list, date_index, f, limit, all_records, total_collected, current_last_key, calls) ==
  LET Day(calls2, day_results, day_records, day_last_key) ==
        IF ~day_results.ok
        THEN WalkDates(date_list, date_index + 1, f, limit, all_records,
                       total_collected, current_last_key, calls2)
        ELSE IF Truthy(day_last_key)
        THEN Returned(SortByAbendedAtDesc(all_records \o day_records),
                      ResumeKey(date_index, day_last_key), calls2)
        ELSE WalkDates(date_list, date_index + 1, f, limit,
                       all_records \o day_records,
                       total_collected + Len(day_records), PyNone, calls2)
      Queried(date_str, remaining_limit, start_key, day_results) ==
        Day(Append(calls, QueryCall(date_str, remaining_limit, start_key,
                                    day_results)),
            day_results, ConvertAll(day_results.items),
            day_results.last_evaluated_key)
      Query(date_str, remaining_limit, start_key) ==
        Queried(date_str, remaining_limit, start_key,
                IndexQuery(date_str, {r \in table : DateRangeFilter(r, f)},
                           remaining_limit, start_key))
  IN IF date_index >= Len(date_list)
     THEN Returned(SortByAbendedAtDesc(all_records), PyNone, calls)
     ELSE IF total_collected >= limit
     THEN Raised("UnboundLocalError", calls)
     ELSE Query(date_list[date_index + 1],
                RemainingLimit(limit, total_collected),
                IF Truthy(current_last_key) /\ date_index = 0
                THEN current_last_key ELSE PyNone)

\* date_list[resume_date_index:]
SliceFrom(date_list, i) ==
  LET from == IF i < 0 THEN (IF Len(date_list) + i < 0 THEN 0
                             ELSE Len(date_list) + i)
              ELSE i
  IN SubSeq(date_list, from + 1, Len(date_list))

\* The resume of get_abends_by_date_range: [ok, date_list,
\* current_last_key].  A truthy key that is no dict, or a resume_date_index
\* that is no int, raises TypeError at the test or at the slice (ok is
\* FALSE).
Resume(date_list, key) ==
  LET Whole(current_last_key) ==
        [ok |-> TRUE, date_list |-> date_list,
         current_last_key |-> current_last_key]
      TypeError == [ok |-> FALSE, date_list |-> <<>>,
                    current_last_key |-> PyNone]
      Slice(resume_date_index) ==
        IF resume_date_index.t \in {"int", "bool"}
        THEN [ok |-> TRUE,
              date_list |-> SliceFrom(date_list, resume_date_index.n),
              current_last_key |-> DictGet(key, K_inner_last_key)]
        ELSE IF resume_date_index.t = "none"
        THEN Whole(DictGet(key, K_inner_last_key))
        ELSE TypeError
  IN IF ~Truthy(key) THEN Whole(key)
     ELSE IF key.t = "dict"
     THEN IF DictHas(key, K_resume_date_index)
          THEN Slice(DictGet(key, K_resume_date_index))
          ELSE Whole(key)
     ELSE IF key.t = "list"
     THEN IF \E i \in 1..Len(key.items) :
                 key.items[i].val = PyStr(K_resume_date_index)
          THEN TypeError ELSE Whole(key)
     ELSE IF key.t = "str"
     THEN IF Contains(key.s, K_resume_date_index)
          THEN TypeError ELSE Whole(key)
     ELSE TypeError

\* get_abends_by_date_range; the outer except re-raises
GetAbendsByDateRange(start_date, end_date, f, limit, last_evaluated_key) ==
  LET Walk(resumed) ==
        IF ~resumed.ok THEN Raised("TypeError", <<>>)
        ELSE WalkDates(resumed.date_list, 0, f, limit, <<>>, 0,
                       resumed.current_last_key, <<>>)
  IN IF IsSingleDate(start_date, end_date)
     THEN GetAbendsForDate(start_date, f, limit, last_evaluated_key)
     ELSE Walk(Resume(DateList(start_date, end_date), last_evaluated_key))

\* get_abends_unified: start_date and end_date are PyNone or a PyDate
GetAbendsUnified(start_date, end_date, f, limit, last_evaluated_key) ==
  IF ~Truthy(start_date) /\ ~Truthy(end_date)
  THEN GetAbendsForDate(today, f, limit, last_evaluated_key)
  ELSE IF Truthy(start_date) /\ Truthy(end_date) /\ start_date = end_date
  THEN GetAbendsForDate(start_date.n, f, limit, last_evaluated_key)
  ELSE IF Truthy(start_date) /\ ~Truthy(end_date)
  THEN GetAbendsForDate(start_date.n, f, limit, last_evaluated_key)
  ELSE IF ~Truthy(start_date) /\ Truthy(end_date)
  THEN GetAbendsForDate(end_date.n, f, limit, last_evaluated_key)
  ELSE GetAbendsByDateRange(start_date.n, end_date.n, f, limit,
                            last_evaluated_key)

(***************************************************************************)
(* Chains of list calls on the repository: a first call without a key,     *)
(* then calls that pass the key the call before returned.  The table, the  *)
(* failing partitions and the date do not change along a chain.            *)
(***************************************************************************)
NoFilters == [domain_area |-> PyNone, adr_status |-> PyNone,
              severity |-> PyNone, search_term |-> PyNone]

Filters == { NoFilters,
             [NoFilters EXCEPT !.severity = PyStr(V_HIGH)],
             [NoFilters EXCEPT !.search_term = PyStr(V_PA)] }

Idle == [entry |-> "idle", start_date |-> PyNone, end_date |-> PyNone,
         f |-> NoFilters, limit |-> 0]

NoResult == Returned(<<>>, PyNone, <<>>)

OptionalDates == {PyNone} \cup { PyDate(d) : d \in Dates }

TrackingIDs(records) ==
  IF records = <<>> THEN <<>>
  ELSE [i \in 1..Len(records) |-> records[i].trackingID]

\* the call the request r stands for, with the key passed
Dispatch(r, key) ==
  IF r.entry = "range"
  THEN GetAbendsByDateRange(r.start_date.n, r.end_date.n, r.f, r.limit, key)
  ELSE GetAbendsUnified(r.start_date, r.end_date, r.f, r.limit, key)

Call(r, key) ==
  /\ req' = r
  /\ lastKey' = key
  /\ res' = Dispatch(r, key)
  /\ seen' = seen \o TrackingIDs(res'.records)
  /\ keys' = IF pages = 0 THEN {} ELSE keys \cup {res.next_key}
  /\ pages' = pages + 1
  /\ queryFailed' = (queryFailed
                     \/ \E i \in 1..Len(res'.calls) : ~res'.calls[i].ok)
  /\ UNCHANGED <<envVars, pathVars, sopVars, gitVars, codecVars, ingressVars, filterVars, writeVars>>

\* get_abends_by_date_range(start_date, end_date, ..., limit) without a
\* key, for dates in order (the router makes the calls with dates reversed)
ListByDateRange ==
  /\ req = Idle
  /\ \E s \in Dates, e \in Dates, f \in Filters, limit \in 1..MaxLimit :
       /\ s <= e
       /\ Call([entry |-> "range", start_date |-> PyDate(s),
               end_date |-> PyDate(e), f |-> f, limit |-> limit], PyNone)

\* get_abends_unified(start_date, end_date, ..., limit) without a key
ListUnified ==
  /\ req = Idle
  /\ \E s \in OptionalDates, e \in OptionalDates, f \in Filters,
        limit \in 1..MaxLimit :
       Call([entry |-> "unified", start_date |-> s, end_date |-> e,
             f |-> f, limit |-> limit], PyNone)

\* the same call again with the key the call before returned
NextPage ==
  /\ req /= Idle
  /\ res.status = "ok"
  /\ Truthy(res.next_key)
  /\ pages < MaxPages
  /\ Call(req, res.next_key)

\* the codec and the ingress at rest
NoCodec == cop = "idle" /\ cin = PyNone /\ cout = PyNone /\ ctoken = PyNone
\* no request of the list endpoint yet
NoRequest == [sent |-> FALSE, abendedAtStartDate |-> PyNone,
              abendedAtEndDate |-> PyNone, severity |-> PyNone,
              search |-> PyNone, limit |-> PyNone, cursor |-> PyNone,
              hops |-> 0]

NoResponse == [status |-> "none", exc |-> "", data |-> <<>>, total |-> 0,
               limit |-> 0, hasNext |-> FALSE, hasPrevious |-> FALSE,
               nextCursor |-> PyNone, prevCursor |-> PyNone, calls |-> <<>>]

NoIngress == http = NoRequest /\ resp = NoResponse

\* no pair of list queries yet
NoWide == [sent |-> FALSE, f |-> NoFilters, res |-> NoResult]

\* the workers of the write path
Procs == 1..2

\* a worker between two calls
IdleProc == [pc |-> "idle", op |-> "none", tracking_id |-> PyNone,
             updates |-> <<>>, first |-> PyNone, record |-> PyNone]

\* no call of the write path has returned yet
NoCall == [op |-> "none", status |-> "none", tracking_id |-> PyNone,
           updates |-> <<>>, first |-> PyNone, read |-> PyNone,
           before |-> PyNone, after |-> PyNone, audited |-> FALSE, at |-> 0]

\* the write path at rest, on an empty table
NoWrites ==
  /\ store = {}
  /\ audits = {}
  /\ procs = [p \in Procs |-> IdleProc]
  /\ clock = 0
  /\ last = NoCall

\* no pair of listings by the two paths yet
NoBoth == [sent |-> FALSE, d |-> 0, f |-> NoFilters, limit |-> 0,
           first |-> NoResult, second |-> NoResult, range |-> NoResult]

NoPaths == both = NoBoth

\* a worker of the SOP service between two calls
IdleSop == [pc |-> "idle", sop_id |-> PyNone, request |-> <<>>,
            existing_sop |-> PyNone, updates |-> <<>>, update_time |-> 0]

\* no call of the SOP service has returned yet
NoSopCall == [op |-> "none", status |-> "none", sop_id |-> PyNone,
              request |-> <<>>, response |-> PyNone, before |-> PyNone,
              after |-> PyNone, asked |-> 0]

\* the SOP service at rest, on an empty table
NoSops ==
  /\ sops = {}
  /\ sopProcs = [p \in Procs |-> IdleSop]
  /\ sopLast = NoSopCall

\* no request of the GitLab client under way
IdleClient == [pc |-> "idle", attempt |-> 0, sent |-> 0, log |-> <<>>,
               last_exception |-> "none", raised |-> "none",
               data |-> "none"]

NoGitLab == gitlab = IdleClient

\* get_abends_by_date_range does not read the date of the day; a partition
\* that fails is looked at with an index that returns no key at the end of
\* a partition
Init ==
  /\ today = FirstDate
  /\ table \in { TableOf(counts) : counts \in [Dates -> 0..MaxPerDay] }
  /\ failing \in {{}} \cup { {StrfTime(d)} : d \in Dates }
  /\ eager \in IF failing = {} THEN BOOLEAN ELSE {FALSE}
  /\ req = Idle
  /\ lastKey = PyNone
  /\ res = NoResult
  /\ seen = <<>>
  /\ keys = {}
  /\ pages = 0
  /\ queryFailed = FALSE
  /\ NoCodec
  /\ NoIngress
  /\ wide = NoWide
  /\ NoWrites
  /\ NoPaths
  /\ NoSops
  /\ NoGitLab

Next == ListByDateRange \/ NextPage

Spec == Init /\ [][Next]_vars

\* chains of calls of the router, on any day, over tables whose partitions
\* are all empty or all full (specification SpecRouter)
InitRouter ==
  /\ today \in Dates
  /\ table \in { TableOf([d \in Dates |-> n]) : n \in {0, MaxPerDay} }
  /\ failing = {}
  /\ eager \in BOOLEAN
  /\ req = Idle
  /\ lastKey = PyNone
  /\ res = NoResult
  /\ seen = <<>>
  /\ keys = {}
  /\ pages = 0
  /\ queryFailed = FALSE
  /\ NoCodec
  /\ NoIngress
  /\ wide = NoWide
  /\ NoWrites
  /\ NoPaths
  /\ NoSops
  /\ NoGitLab

NextRouter == ListUnified \/ NextPage

SpecRouter == InitRouter /\ [][NextRouter]_vars

(***************************************************************************)
(* Properties of the chains of calls (specification Spec).                 *)
(***************************************************************************)
IsRangeQuery == req.entry = "range" /\ req.start_date.n < req.end_date.n

\* trackingIDs of the stored records a date-range request matches
Matching(r) ==
  { item.trackingID.s : item \in
      { x \in table :
          /\ x.record_type.s = V_ABEND
          /\ \E k \in 1..Len(DateList(r.start_date.n, r.end_date.n)) :
                DateList(r.start_date.n, r.end_date.n)[k] = x.abended_date.s
          /\ DateRangeFilter(x, r.f) } }

NoDuplicates(ids) ==
  \A i, j \in 1..Len(ids) : i /= j => ids[i] /= ids[j]

\* records returned by the index queries calls[1..k]
RECURSIVE Collected(_, _)
Collected(calls, k) ==
  IF k = 0 THEN 0 ELSE Collected(calls, k - 1) + calls[k].returned

\* C1: a date-range chain over an unchanging table in which no partition
\* query fails returns every matching record exactly once: every call
\* returns, no record is on two pages, and once the chain ends with a null
\* key the pages hold all the matching records.
C1_EveryRecordExactlyOnce ==
  (IsRangeQuery /\ failing = {} /\ ~queryFailed) =>
     /\ res.status = "ok"
     /\ NoDuplicates(seen)
     /\ ~Truthy(res.next_key) => { seen[i] : i \in 1..Len(seen) } = Matching(req)

\* C2: a date-range chain never returns a key it returned before (it does
\* not cycle), so that it ends with a null key.
C2_NeverRevisitsAKey ==
  (IsRangeQuery /\ failing = {} /\ Truthy(res.next_key)) =>
     res.next_key \notin keys

\* C3: every page holds at most limit records; every index query of a call
\* asks for at most limit minus the records collected before it, and no
\* query is made once limit records are collected.
C3_PageWithinLimit ==
  req /= Idle =>
     /\ Len(res.records) <= req.limit
     /\ \A i \in 1..Len(res.calls) :
          /\ Collected(res.calls, i - 1) < req.limit
          /\ res.calls[i].limit <= req.limit - Collected(res.calls, i - 1)

\* a date-range call resumed from a key filled its page from two partitions,
\* asking the second for less than the limit
C3_Witness ==
  /\ IsRangeQuery
  /\ Truthy(lastKey)
  /\ res.status = "ok"
  /\ Len(res.calls) >= 2
  /\ res.calls[2].limit < req.limit
  /\ Len(res.records) = req.limit

\* C7: a list query with end_date before start_date is rejected with a
\* ValidationError by the router, before any index query, also when the
\* router is called directly.
C7_RouterRejectsReversedDates ==
  (/\ req /= Idle
   /\ Truthy(req.start_date) /\ Truthy(req.end_date)
   /\ req.end_date.n < req.start_date.n) =>
     /\ res.status = "raise"
     /\ res.exc = "ValidationError"
     /\ res.calls = <<>>

\* C9: get_abends_by_date_range with start_date = end_date returns what
\* get_abends_for_date returns for that date, filters, limit and key, and
\* its key is never a {resume_date_index, inner_last_key} key.
C9_SingleDateShortcut ==
  (req.entry = "range" /\ req.start_date = req.end_date) =>
     LET one == GetAbendsForDate(req.start_date.n, req.f, req.limit, lastKey)
     IN /\ res.status = one.status
        /\ res.records = one.records
        /\ res.next_key = one.next_key
        /\ ~DictHas(res.next_key, K_resume_date_index)

\* a single-date call through get_abends_by_date_range resumed from a key,
\* returned records and a further key
C9_Witness ==
  /\ req.entry = "range" /\ req.start_date = req.end_date
  /\ Truthy(lastKey)
  /\ res.status = "ok"
  /\ Len(res.records) > 0
  /\ Truthy(res.next_key)

\* C10: a date-range call in which the index raised for a date partition
\* does not fail: it returns the records of the partitions that answered.
C10_FailingPartitionSkipped ==
  (/\ IsRangeQuery
   /\ \E i \in 1..Len(res.calls) :
         ~res.calls[i].ok /\ res.calls[i].hash_key \in failing) =>
     /\ res.status = "ok"
     /\ Len(res.records) = Collected(res.calls, Len(res.calls))

(***************************************************************************)
(* The cursor codec applied to single arguments (specification SpecCodec). *)
(***************************************************************************)
S_Garbage == <<110, 111, 116, 45, 118, 97, 108, 105, 100, 45, 98, 97, 115, 101, 54, 52, 33, 33>>  \* "not-valid-base64!!"
S_List == <<87, 122, 70, 100>>  \* "WzFd"   base64 of [1]
S_ListNoise == <<87, 122, 70, 100, 33, 33>>  \* "WzFd!!"   base64 of [1] and two characters outside the alphabet
S_Number == <<78, 81, 61, 61>>  \* "NQ=="   base64 of 5
S_Zero == <<77, 65, 61, 61>>  \* "MA=="   base64 of 0
S_Null == <<98, 110, 86, 115, 98, 65, 61, 61>>  \* "bnVsbA=="   base64 of null
S_String == <<73, 110, 77, 105>>  \* "InMi"   base64 of "s"
S_BadJson == <<101, 121, 74, 104>>  \* "eyJh"   base64 of {"a
S_EmptyMap == <<101, 51, 48, 61>>  \* "e30="   base64 of {}
S_BadPadding == <<101, 51>>  \* "e3"
S_BadUtf8 == <<47, 119, 61, 61>>  \* "/w=="   base64 of the byte 0xFF
S_BadDate == <<50, 48, 50, 52, 45, 49, 51, 45, 48, 49>>  \* "2024-13-01"
V_high == <<104, 105, 103, 104>>  \* "high"
V_bogus == <<98, 111, 103, 117, 115>>  \* "bogus"
V_MEDIUM == <<77, 69, 68, 73, 85, 77>>  \* "MEDIUM"
V_QuotedJob == <<80, 34, 65, 92, 89>>  \* "P"A\Y"

\* an item whose job name holds a quote and a backslash
QuotedItem ==
  [AbendItem(FirstDate, 1) EXCEPT
     !.trackingID = PyStr(V_TrackingPrefix \o V_QuotedJob \o <<95, 48, 49>>),
     !.job_name = PyStr(V_QuotedJob)]

\* last keys of the index
SimpleTokens ==
  { KeyOfItem(AbendItem(d, i)) : d \in Dates, i \in 1..MaxPerDay }
    \cup {KeyOfItem(QuotedItem)}

\* keys of a date-range query with a last key of the index inside
CrossTokens ==
  { ResumeKey(k, t) : k \in 0..(NDates - 1), t \in SimpleTokens }

Tokens == SimpleTokens \cup CrossTokens

\* s without its last k characters
DropLast(s, k) == SubSeq(s, 1, Len(s) - k)

\* strings a client can send as a cursor: malformed ones, base64 of JSON
\* that is no map, and encoded tokens cut short
MalformedCursors ==
  { PyStr(<<>>), PyStr(S_Garbage), PyStr(S_List), PyStr(S_ListNoise),
    PyStr(S_Number), PyStr(S_Zero), PyStr(S_Null), PyStr(S_String),
    PyStr(S_BadJson), PyStr(S_EmptyMap), PyStr(S_BadPadding),
    PyStr(S_BadUtf8) }

CursorStrings ==
  MalformedCursors
    \cup { PyStr(DropLast(EncodeCursor(t).s, k)) :
             t \in SimpleTokens, k \in 1..MaxTrunc }

\* encode_cursor(token)
EncodeToken ==
  /\ cop = "idle"
  /\ \E t \in Tokens \cup {PyNone, EmptyDict} :
       /\ cop' = "encode"
       /\ cin' = t
       /\ cout' = EncodeCursor(t)
       /\ ctoken' = t
  /\ UNCHANGED <<envVars, pathVars, sopVars, gitVars, chainVars, ingressVars, filterVars, writeVars>>

\* decode_cursor of what encode_cursor returned
DecodeEncoded ==
  /\ cop = "encode"
  /\ cop' = "decode"
  /\ cin' = cout
  /\ cout' = DecodeCursor(cout)
  /\ UNCHANGED <<ctoken, envVars, pathVars, sopVars, gitVars, chainVars, ingressVars, filterVars, writeVars>>

\* decode_cursor(cursor) for a string of the client, or None
DecodeString ==
  /\ cop = "idle"
  /\ \E c \in CursorStrings \cup {PyNone} :
       /\ cop' = "decode"
       /\ cin' = c
       /\ cout' = DecodeCursor(c)
       /\ ctoken' = PyNone
  /\ UNCHANGED <<envVars, pathVars, sopVars, gitVars, chainVars, ingressVars, filterVars, writeVars>>

\* is_valid_cursor(cursor) for a string of the client, or None
ValidateString ==
  /\ cop = "idle"
  /\ \E c \in CursorStrings \cup {PyNone} :
       /\ cop' = "is_valid"
       /\ cin' = c
       /\ cout' = PyBool(IsValidCursor(c))
       /\ ctoken' = PyNone
  /\ UNCHANGED <<envVars, pathVars, sopVars, gitVars, chainVars, ingressVars, filterVars, writeVars>>

InitCodec ==
  /\ today = FirstDate
  /\ table = {}
  /\ failing = {}
  /\ eager = FALSE
  /\ req = Idle
  /\ lastKey = PyNone
  /\ res = NoResult
  /\ seen = <<>>
  /\ keys = {}
  /\ pages = 0
  /\ queryFailed = FALSE
  /\ NoCodec
  /\ NoIngress
  /\ wide = NoWide
  /\ NoWrites
  /\ NoPaths
  /\ NoSops
  /\ NoGitLab

NextCodec == EncodeToken \/ DecodeEncoded \/ DecodeString \/ ValidateString

SpecCodec == InitCodec /\ [][NextCodec]_vars

\* C4: decode_cursor(encode_cursor(T)) = T for every non-empty token T that
\* is a map, simple or cross-partition; encode_cursor of None and of an
\* empty map is None.
C4_RoundTrip ==
  /\ (cop = "decode" /\ Truthy(ctoken)) => cout = ctoken
  /\ (cop = "encode" /\ ~Truthy(cin)) => cout = PyNone

\* a cross-partition token, with a last key that holds a quote inside, was
\* encoded and decoded
C4_Witness ==
  /\ cop = "decode"
  /\ ctoken.t = "dict"
  /\ DictHas(ctoken, K_resume_date_index)
  /\ DictGet(ctoken, K_inner_last_key) = KeyOfItem(QuotedItem)
  /\ cin.t = "str"

\* C5: for None, the empty string and every string that is not base64 of
\* JSON encoding a map, decode_cursor returns None (it returns nothing but
\* None or a map), and is_valid_cursor is false for every such string.
C5_DecodeNoneUnlessMap ==
  /\ (cop = "decode" /\ ctoken = PyNone) => cout.t \in {"none", "dict"}
  /\ (cop = "is_valid" /\ cin.t = "str" /\ DecodeCursor(cin).t /= "dict")
        => cout = PyBool(FALSE)

(***************************************************************************)
(* The list endpoint (specification SpecIngress): the query parameters are *)
(* validated into a GetAbendsFilter, AbendService.get_abends calls         *)
(* get_abends_unified and builds the page and its metadata.                *)
(***************************************************************************)
LimitMin == 1
LimitMax == 10
LimitDefault == 5

\* str.upper() on ASCII
Upper(s) ==
  IF s = <<>> THEN <<>>
  ELSE [i \in 1..Len(s) |-> IF s[i] >= 97 /\ s[i] <= 122 THEN s[i] - 32
                            ELSE s[i]]

SeverityValues == {V_HIGH, V_MEDIUM, V_LOW}

\* GetAbendsFilter.validate_severity: the value of the field, or a failure
ValidateSeverity(v) ==
  IF v.t = "none" THEN [ok |-> TRUE, v |-> v]
  ELSE IF Upper(v.s) \in SeverityValues
  THEN [ok |-> TRUE, v |-> PyStr(Upper(v.s))]
  ELSE [ok |-> FALSE, v |-> v]

\* validate_start_date and validate_end_date
ValidateDate(v) == v.t = "none" \/ FromIsoFormat(v.s).ok

\* validate_cursor
ValidateCursor(v) == v.t = "none" \/ IsValidCursor(v)

\* the limit field: its default, and its bounds
ValidateLimit(v) ==
  IF v.t = "none" THEN [ok |-> TRUE, n |-> LimitDefault]
  ELSE [ok |-> v.n >= LimitMin /\ v.n <= LimitMax, n |-> v.n]

InvalidFilter ==
  [ok |-> FALSE, parsed_start_date |-> PyNone, parsed_end_date |-> PyNone,
   f |-> NoFilters, limit |-> 0, cursor |-> PyNone,
   decoded_cursor |-> PyNone]

\* GetAbendsFilter(**q): the field validators, then
\* validate_and_convert_dates
GetAbendsFilter(q) ==
  LET Converted(severity, limit, parsed_start_date, parsed_end_date) ==
        IF parsed_end_date.n < parsed_start_date.n
        THEN InvalidFilter
        ELSE [ok |-> TRUE,
              parsed_start_date |-> parsed_start_date,
              parsed_end_date |-> parsed_end_date,
              f |-> [domain_area |-> PyNone, adr_status |-> PyNone,
                     severity |-> severity.v, search_term |-> q.search],
              limit |-> limit.n,
              cursor |-> q.cursor,
              decoded_cursor |-> IF Truthy(q.cursor)
                                 THEN DecodeCursor(q.cursor) ELSE PyNone]
      StartParsed(severity, limit, parsed_start_date) ==
        Converted(severity, limit, parsed_start_date,
                  IF Truthy(q.abendedAtEndDate)
                  THEN PyDate(FromIsoFormat(q.abendedAtEndDate.s).d)
                  ELSE parsed_start_date)
      Validated(severity, limit) ==
        IF ~(/\ ValidateCursor(q.cursor)
             /\ severity.ok
             /\ ValidateDate(q.abendedAtStartDate)
             /\ ValidateDate(q.abendedAtEndDate)
             /\ limit.ok)
        THEN InvalidFilter
        ELSE StartParsed(severity, limit,
                         IF Truthy(q.abendedAtStartDate)
                         THEN PyDate(FromIsoFormat(q.abendedAtStartDate.s).d)
                         ELSE PyDate(today))
  IN Validated(ValidateSeverity(q.severity), ValidateLimit(q.limit))

\* a total that counts the page only
EstimatedTotal_PageOnly(records, limit, has_next) == Len(records)

\* estimated_total = len(records) + (filters.limit if has_next else 0)
EstimatedTotal(records, limit, has_next) ==
  Len(records) + (IF has_next THEN limit ELSE 0)

\* AbendService.get_abends(filters)
ServiceGetAbends(filters) ==
  LET Response(r, has_next) ==
        IF r.status = "raise"
        THEN [NoResponse EXCEPT !.status = "error", !.exc = r.exc,
                                !.calls = r.calls]
        ELSE [status |-> "ok", exc |-> "", data |-> r.records,
              total |-> EstimatedTotal(r.records, filters.limit, has_next),
              limit |-> filters.limit,
              hasNext |-> has_next,
              hasPrevious |-> filters.cursor.t /= "none",
              nextCursor |-> IF Truthy(r.next_key)
                             THEN EncodeCursor(r.next_key) ELSE PyNone,
              prevCursor |-> PyNone,
              calls |-> r.calls]
      Listed(r) == Response(r, r.next_key.t /= "none")
  IN Listed(GetAbendsUnified(filters.parsed_start_date,
                             filters.parsed_end_date, filters.f,
                             filters.limit, filters.decoded_cursor))

\* GET /abends with the query parameters q
GetAbendsEndpoint(q) ==
  LET Handle(filters) ==
        IF ~filters.ok
        THEN [NoResponse EXCEPT !.status = "ValidationError",
                                !.exc = "ValidationError"]
        ELSE ServiceGetAbends(filters)
  IN Handle(GetAbendsFilter(q))

DateStrings == { PyStr(StrfTime(d)) : d \in Dates }

\* the cursors of a first request: none, malformed ones, base64 of JSON
\* that is no map, and the last key of an item of the first date
FirstCursors ==
  { PyNone, PyStr(<<>>), PyStr(S_Garbage), PyStr(S_List), PyStr(S_Zero),
    EncodeCursor(KeyOfItem(AbendItem(FirstDate, MaxPerDay))) }

Request(start, end, severity, search, limit, cursor, hops) ==
  [sent |-> TRUE, abendedAtStartDate |-> start, abendedAtEndDate |-> end,
   severity |-> severity, search |-> search, limit |-> limit,
   cursor |-> cursor, hops |-> hops]

\* a client sends a list request
ListRequest ==
  /\ ~http.sent
  /\ \E start \in {PyNone, PyStr(S_BadDate)} \cup DateStrings,
        end \in {PyNone, PyStr(S_BadDate)} \cup DateStrings,
        severity \in {PyNone, PyStr(V_high), PyStr(V_bogus)},
        limit \in {PyNone, PyInt(LimitMax + 1)}
                    \cup { PyInt(n) : n \in 0..MaxLimit },
        cursor \in FirstCursors :
       /\ http' = Request(start, end, severity, PyNone, limit, cursor, 0)
       /\ resp' = GetAbendsEndpoint(http')
  /\ UNCHANGED <<envVars, pathVars, sopVars, gitVars, chainVars, codecVars, filterVars, writeVars>>

\* the client asks for the next page with the nextCursor of the response
FollowNextCursor ==
  /\ http.sent
  /\ resp.status = "ok"
  /\ resp.nextCursor.t /= "none"
  /\ http.hops < MaxPages
  /\ http' = [http EXCEPT !.cursor = resp.nextCursor, !.hops = @ + 1]
  /\ resp' = GetAbendsEndpoint(http')
  /\ UNCHANGED <<envVars, pathVars, sopVars, gitVars, chainVars, codecVars, filterVars, writeVars>>

InitIngress ==
  /\ today \in Dates
  /\ table \in { TableOf([d \in Dates |-> n]) : n \in {0, MaxPerDay} }
  /\ failing = {}
  /\ eager \in BOOLEAN
  /\ req = Idle
  /\ lastKey = PyNone
  /\ res = NoResult
  /\ seen = <<>>
  /\ keys = {}
  /\ pages = 0
  /\ queryFailed = FALSE
  /\ NoCodec
  /\ NoIngress
  /\ wide = NoWide
  /\ NoWrites
  /\ NoPaths
  /\ NoSops
  /\ NoGitLab

NextIngress == ListRequest \/ FollowNextCursor

SpecIngress == InitIngress /\ [][NextIngress]_vars

\* C6: a list request whose cursor is not None and does not decode to a
\* pagination token (a non-empty map) is answered with a validation error
\* and no query of the store is made for it.
C6_MalformedCursorRejected ==
  (/\ http.sent
   /\ http.cursor.t /= "none"
   /\ ~(DecodeCursor(http.cursor).t = "dict"
        /\ Truthy(DecodeCursor(http.cursor))))
     => (resp.status = "ValidationError" /\ resp.calls = <<>>)

\* the request is valid but for its dates, and supplies exactly one of them
OneDateSupplied ==
  /\ http.sent
  /\ http.cursor.t = "none"
  /\ ValidateSeverity(http.severity).ok
  /\ ValidateLimit(http.limit).ok
  /\ \/ http.abendedAtStartDate \in DateStrings
        /\ http.abendedAtEndDate.t = "none"
     \/ http.abendedAtStartDate.t = "none"
        /\ http.abendedAtEndDate \in DateStrings

SuppliedDate ==
  IF http.abendedAtStartDate.t = "none" THEN http.abendedAtEndDate.s
  ELSE http.abendedAtStartDate.s

\* C8: a list request that supplies exactly one of the start date and the
\* end date is answered by one query, of the partition of the supplied
\* date, whichever of the two was supplied.
C8_OneDateIsSingleDay ==
  OneDateSupplied =>
     /\ resp.status = "ok"
     /\ Len(resp.calls) = 1
     /\ resp.calls[1].hash_key = SuppliedDate

\* C20: in every list response total is the number of records of the page,
\* plus the limit of the request when hasNext; prevCursor is null; and
\* hasPrevious is true exactly when the request carried a cursor.
C20_PaginationMeta ==
  (http.sent /\ resp.status = "ok") =>
     /\ resp.total = Len(resp.data)
                       + (IF resp.hasNext
                          THEN (IF http.limit.t = "none" THEN LimitDefault
                                ELSE http.limit.n)
                          ELSE 0)
     /\ resp.prevCursor = PyNone
     /\ resp.hasPrevious = (http.cursor.t /= "none")

\* a page that is followed by another, asked for with a cursor
C20_Witness ==
  /\ http.sent /\ resp.status = "ok"
  /\ resp.hasNext /\ resp.hasPrevious
  /\ Len(resp.data) >= 1
  /\ resp.total = Len(resp.data) + http.limit.n

(***************************************************************************)
(* A list query and the same query with one more equality filter, on the   *)
(* same table (specification SpecFilter).                                  *)
(***************************************************************************)
\* get_abends_by_date_range(start_date, end_date, ..., limit) twice: with
\* the filters f, and with f and one more of domain_area, adr_status and
\* severity; limit is at least the number of records the first matches
ListWithFilter ==
  /\ req = Idle
  /\ \E s \in Dates, e \in Dates, f \in Filters,
        attr \in {"domain_area", "adr_status", "severity"},
        value \in {V_payments, V_claims, V_ABEND_REGISTERED, V_HIGH, V_LOW},
        more \in 0..1 :
       LET r == [entry |-> "range", start_date |-> PyDate(s),
                 end_date |-> PyDate(e), f |-> f, limit |-> 0]
           limit == (IF Matching(r) = {} THEN 1
                     ELSE Cardinality(Matching(r))) + more
       IN /\ s <= e
          /\ f[attr] = PyNone
          /\ \/ attr = "domain_area" /\ value \in {V_payments, V_claims}
             \/ attr = "adr_status" /\ value = V_ABEND_REGISTERED
             \/ attr = "severity" /\ value \in {V_HIGH, V_LOW}
          /\ req' = [r EXCEPT !.f = [f EXCEPT ![attr] = PyStr(value)],
                              !.limit = limit]
          /\ res' = Dispatch(req', PyNone)
          /\ wide' = [sent |-> TRUE, f |-> f,
                      res |-> Dispatch([r EXCEPT !.limit = limit], PyNone)]
  /\ lastKey' = PyNone
  /\ seen' = TrackingIDs(res'.records)
  /\ pages' = 1
  /\ UNCHANGED <<envVars, pathVars, sopVars, gitVars, keys, queryFailed, codecVars, ingressVars, writeVars>>

InitFilter ==
  /\ today = FirstDate
  /\ table \in { TableOf(counts) : counts \in [Dates -> 0..MaxPerDay] }
  /\ failing = {}
  /\ eager \in BOOLEAN
  /\ req = Idle
  /\ lastKey = PyNone
  /\ res = NoResult
  /\ seen = <<>>
  /\ keys = {}
  /\ pages = 0
  /\ queryFailed = FALSE
  /\ NoCodec
  /\ NoIngress
  /\ wide = NoWide
  /\ NoWrites
  /\ NoPaths
  /\ NoSops
  /\ NoGitLab

NextFilter == ListWithFilter

SpecFilter == InitFilter /\ [][NextFilter]_vars

\* C11: with a limit of at least the number of matching records, the
\* records a list query returns with one more equality filter are among
\* the records the same query returns without that filter.
C11_FilterNarrows ==
  (wide.sent /\ res.status = "ok") =>
     /\ wide.res.status = "ok"
     /\ \A i \in 1..Len(res.records) :
          \E j \in 1..Len(wide.res.records) :
             wide.res.records[j].trackingID = res.records[i].trackingID

(***************************************************************************)
(* The write path: AbendDynamoTable.save, create_abend,                    *)
(* update_abend_fields and the calls of AbendService built on them         *)
(* (specification SpecWrite).                                              *)
(* An item of the store carries the attributes under their Python names.   *)
(* A datetime argument is [d, h, off, aware]: the date and the hour it     *)
(* shows, its UTC offset in hours, and whether it has a tzinfo; a          *)
(* timestamp read from the clock is PyVal("datetime", instant, ...).       *)
(* remediation_metadata is None or the JSON object as a record of values.  *)
(***************************************************************************)
MaxClock == 4

V_system == <<115, 121, 115, 116, 101, 109>>  \* "system"
V_AUDIT_LOG == <<65, 85, 68, 73, 84, 95, 76, 79, 71>>  \* "AUDIT_LOG"

\* dt.replace(microsecond=0).isoformat() of an aware datetime
IsoFormat(dt) ==
  StrfTime(dt.d) \o <<84>> \o Digit2(dt.h) \o <<58, 48, 48, 58, 48, 48>>
    \o (IF dt.off < 0 THEN <<45>> \o Digit2(0 - dt.off)
        ELSE <<43>> \o Digit2(dt.off))
    \o <<58, 48, 48>>

\* the AbendDynamoTable instance create_abend builds for a tracking ID that
\* ends in ulid, at the instant now
AbendRecord(job_name, abended_at, severity, incident_id, ulid, now) ==
  LET Built(aware_at) ==
        [tracking_id |-> PyStr(V_TrackingPrefix \o job_name \o <<95>> \o ulid),
         record_type |-> PyStr(V_ABEND),
         abended_date |-> PyStr(StrfTime(aware_at.d)),
         abended_at |-> PyStr(IsoFormat(aware_at)),
         job_name |-> PyStr(job_name),
         job_id |-> PyStr(job_name),
         incident_number |-> PyStr(incident_id),
         adr_status |-> PyStr(V_ABEND_REGISTERED),
         severity |-> PyStr(severity),
         remediation_metadata |-> PyNone,
         created_at |-> PyVal("datetime", now, <<>>, <<>>),
         updated_at |-> PyVal("datetime", now, <<>>, <<>>),
         created_by |-> PyStr(<<105, 110, 116, 101, 114, 110, 97, 108, 45, 97, 112, 105>>),  \* "internal-api"
         updated_by |-> PyStr(<<105, 110, 116, 101, 114, 110, 97, 108, 45, 97, 112, 105>>),
         generation |-> PyInt(1)]
  IN Built(IF abended_at.aware THEN abended_at
           ELSE [abended_at EXCEPT !.off = 0, !.aware = TRUE])

\* AbendDynamoTable.save of an instance made by the constructor or by get,
\* at the instant now: the item it puts.  Neither instance has
\* _created_at_set, so created_at is set with updated_at.  The audit
\* attributes, None on every ABEND item, are left out.
Save(record, now) ==
  LET Stamped(r) ==
        [r EXCEPT !.updated_at = PyVal("datetime", now, <<>>, <<>>),
                  !.created_at = PyVal("datetime", now, <<>>, <<>>)]
      Typed(r) == IF Truthy(r.record_type) THEN r
                  ELSE [r EXCEPT !.record_type = PyStr(V_ABEND)]
      DateOf(abended_at) ==
        IF abended_at.t = "str" /\ Len(abended_at.s) = 25
           /\ FromIsoFormat(SubSeq(abended_at.s, 1, 10)).ok
        THEN PyStr(SubSeq(abended_at.s, 1, 10))
        ELSE PyStr(StrfTime(today))
      Keyed(r) ==
        IF r.record_type = PyStr(V_AUDIT_LOG)
        THEN [r EXCEPT !.abended_date = PyNone, !.abended_at = PyNone,
                       !.job_name = PyNone, !.severity = PyNone]
        ELSE IF /\ r.record_type = PyStr(V_ABEND)
                /\ Truthy(r.abended_at)
                /\ ~Truthy(r.abended_date)
        THEN Typed([r EXCEPT !.abended_date = DateOf(r.abended_at)])
        ELSE Typed(r)
  IN Keyed(Stamped(record))

\* the table after PutItem of an item: it takes the place of the item
\* under the same tracking_id and record_type
PutItem(items, item) ==
  { r \in items : ~(/\ r.tracking_id = item.tracking_id
                    /\ r.record_type = item.record_type) } \cup {item}

\* AbendDynamoTable.get(hash_key = tracking_id, range_key = "ABEND"); None
\* where it raises DoesNotExist
GetItem(items, tracking_id) ==
  LET found == { r \in items : /\ r.tracking_id = tracking_id
                               /\ r.record_type = PyStr(V_ABEND) }
  IN IF found = {} THEN PyNone ELSE CHOOSE r \in found : TRUE

\* the loop of update_abend_fields over updates.items(): a sequence of
\* <<field_name, field_value>>; hasattr holds of the attributes of the item
RECURSIVE ApplyUpdates(_, _)
ApplyUpdates(abend_record, updates) ==
  IF updates = <<>> THEN abend_record
  ELSE ApplyUpdates(IF updates[1][1] \in DOMAIN abend_record
                    THEN [abend_record EXCEPT ![updates[1][1]] = updates[1][2]]
                    ELSE abend_record,
                    Tail(updates))

\* update_abend_fields after the get: [ok, record], the item saved; ok is
\* FALSE where generation += 1 raises TypeError
UpdatedRecord(abend_record, updates, now) ==
  LET Bumped(r) ==
        IF r.generation.t \in {"int", "bool"}
        THEN [ok |-> TRUE,
              record |-> Save([r EXCEPT
                                 !.updated_at = PyVal("datetime", now, <<>>, <<>>),
                                 !.generation = PyInt(r.generation.n + 1)],
                              now)]
        ELSE [ok |-> FALSE, record |-> r]
  IN Bumped(ApplyUpdates(abend_record, updates))

\* the updates AbendService.update_ai_remediation_approval builds from the
\* record it read: RemediationMetadata keeps the fields of the model (a
\* missing one takes its default) of the stored object
ApprovalUpdates(existing_record, approval_status, comments, approval_time) ==
  LET stored == existing_record.remediation_metadata
      Field(name, default) ==
        IF stored = PyNone THEN default
        ELSE IF name \in DOMAIN stored THEN stored[name]
        ELSE default
  IN << <<"remediation_metadata",
          [expandability |-> Field("expandability", PyNone),
           confidenceScore |-> Field("confidenceScore", PyNone),
           remediationRecommendations |->
             Field("remediationRecommendations", PyNone),
           aiRemediationApprovalRequired |->
             Field("aiRemediationApprovalRequired", PyBool(FALSE)),
           aiRemediationApprovalStatus |-> PyStr(approval_status),
           aiRemediationComments |-> comments,
           aiRemediationApprovedAt |-> PyStr(IntToStr(approval_time))]>>,
        <<"updated_at", PyVal("datetime", approval_time, <<>>, <<>>)>>,
        <<"updated_by", PyStr(V_system)>> >>

\* the abended_at of the requests: 02:00 five hours east of UTC, 22:00 five
\* hours west, 10:00 UTC, and 10:00 without a tzinfo
Moments ==
  { [d |-> FirstDate + 1, h |-> 2, off |-> 5, aware |-> TRUE],
    [d |-> FirstDate, h |-> 22, off |-> 0 - 5, aware |-> TRUE],
    [d |-> FirstDate, h |-> 10, off |-> 0, aware |-> TRUE],
    [d |-> FirstDate, h |-> 10, off |-> 0, aware |-> FALSE] }

\* the updates of the callers of update_abend_fields
UpdateMaps ==
  { << <<"severity", PyStr(V_LOW)>> >>,
    << <<"bogus_field", PyStr(V_bogus)>>, <<"severity", PyStr(V_MEDIUM)>> >>,
    << <<"generation", PyInt(5)>> >>,
    << <<"tracking_id", PyStr(V_TrackingPrefix \o V_GL)>> >>,
    << <<"abended_at",
         PyStr(IsoFormat([d |-> FirstDate + 2, h |-> 10, off |-> 0]))>> >>,
    << <<"remediation_metadata",
         [expandability |-> PyStr(V_high),
          aiRemediationComments |-> PyStr(V_S0C7)]>> >> }

\* the tracking IDs the callers ask for: those stored, and one that is not
TrackingIdsAsked ==
  { r.tracking_id : r \in store } \cup { PyStr(V_TrackingPrefix \o V_PA) }

\* what update_abend_fields does with DoesNotExist, as a re-raise
OnDoesNotExist_Raise == "raise"

\* except AbendDynamoTable.DoesNotExist: return False
OnDoesNotExist == "not_found"

\* a save that is conditional on the generation read
SaveAccepted_IfGenerationUnchanged(stored, abend_record) ==
  stored /= PyNone /\ stored.generation = abend_record.generation

\* abend_record.save() passes no condition: the put is accepted whatever
\* the table holds
SaveAccepted(stored, abend_record) == TRUE

\* what AbendService.create_abend does when the audit log fails, as a
\* failure of the call
AfterAudit_Propagate(audit_ok) == IF audit_ok THEN "ok" ELSE "raise"

\* AbendService.create_abend after the audit log: the except clause logs
\* the failure and the success response is returned
AfterAudit(audit_ok) == "ok"

\* a call returns: the worker is idle again
Return(p, call) ==
  /\ procs' = [procs EXCEPT ![p] = IdleProc]
  /\ last' = [call EXCEPT !.at = clock]
  /\ clock' = clock + 1

\* a call goes on to its next step
Goto(p, proc) ==
  /\ procs' = [procs EXCEPT ![p] = proc]
  /\ last' = last
  /\ clock' = clock + 1

\* AbendService.create_abend up to the return of
\* abend_repository.create_abend: the item is saved, or the save raises
CreateAbend ==
  /\ clock < MaxClock
  /\ \E p \in Procs, abended_at \in Moments, put_ok \in BOOLEAN :
       /\ procs[p].pc = "idle"
       /\ LET record == Save(AbendRecord(V_PAY, abended_at, V_HIGH, V_INC,
                                         Digit2(clock), clock), clock)
          IN IF put_ok
             THEN /\ store' = PutItem(store, record)
                  /\ Goto(p, [IdleProc EXCEPT !.pc = "audit", !.op = "create",
                                !.tracking_id = record.tracking_id,
                                !.record = record])
             ELSE /\ store' = store
                  /\ Return(p, [NoCall EXCEPT !.op = "create",
                                              !.status = "raise"])
  /\ UNCHANGED <<audits, envVars, pathVars, sopVars, gitVars, chainVars, codecVars, ingressVars, filterVars>>

\* the audit log entry of a creation: audit_id AUDIT_{ULID}, attached to
\* the tracking ID
AuditEntry(tracking_id, ulid) ==
  [audit_id |-> PyStr(<<65, 85, 68, 73, 84, 95>> \o ulid),
   tracking_id |-> tracking_id,
   adr_status |-> PyStr(V_ABEND_REGISTERED)]

\* AbendService.create_abend from the audit log on: create_audit_log
\* returns or raises, and the response is built
AuditAbendCreation ==
  /\ \E p \in Procs, audit_ok \in BOOLEAN :
       /\ procs[p].pc = "audit"
       /\ audits' = IF audit_ok
                    THEN audits \cup
                           {AuditEntry(procs[p].tracking_id, Digit2(clock))}
                    ELSE audits
       /\ Return(p, [NoCall EXCEPT !.op = "create",
                                   !.status = AfterAudit(audit_ok),
                                   !.tracking_id = procs[p].tracking_id,
                                   !.after = procs[p].record,
                                   !.audited = audit_ok])
  /\ UNCHANGED <<store, envVars, pathVars, sopVars, gitVars, chainVars, codecVars, ingressVars, filterVars>>

\* update_abend_fields up to the return of AbendDynamoTable.get, in the
\* worker p for the call proc
GetForUpdate(p, proc) ==
  LET Got(abend_record) ==
        IF abend_record = PyNone
        THEN Return(p, [NoCall EXCEPT !.op = proc.op,
                                      !.status = OnDoesNotExist,
                                      !.tracking_id = proc.tracking_id,
                                      !.updates = proc.updates,
                                      !.first = proc.first])
        ELSE Goto(p, [proc EXCEPT !.pc = "save", !.record = abend_record,
                                  !.first = IF proc.op = "update"
                                            THEN abend_record ELSE @])
  IN /\ Got(GetItem(store, proc.tracking_id))
     /\ UNCHANGED <<store, audits, envVars, pathVars, sopVars, gitVars, chainVars, codecVars, ingressVars,
                    filterVars>>

\* a caller calls update_abend_fields(tracking_id, updates)
UpdateAbendFields ==
  /\ clock < MaxClock
  /\ \E p \in Procs, tracking_id \in TrackingIdsAsked, updates \in UpdateMaps :
       /\ procs[p].pc = "idle"
       /\ GetForUpdate(p, [IdleProc EXCEPT !.op = "update",
                                           !.tracking_id = tracking_id,
                                           !.updates = updates])

\* update_abend_fields from the loop over the updates to the return
SaveUpdate ==
  /\ \E p \in Procs :
       /\ procs[p].pc = "save"
       /\ LET Done(proc, u, stored) ==
                IF u.ok /\ SaveAccepted(stored, proc.record)
                THEN /\ store' = PutItem(store, u.record)
                     /\ Return(p, [NoCall EXCEPT !.op = proc.op,
                                     !.status = "ok",
                                     !.tracking_id = proc.tracking_id,
                                     !.updates = proc.updates,
                                     !.first = proc.first,
                                     !.read = proc.record,
                                     !.before = stored,
                                     !.after = u.record])
                ELSE /\ store' = store
                     /\ Return(p, [NoCall EXCEPT !.op = proc.op,
                                     !.status = "raise",
                                     !.tracking_id = proc.tracking_id,
                                     !.updates = proc.updates,
                                     !.first = proc.first,
                                     !.read = proc.record,
                                     !.before = stored])
          IN Done(procs[p],
                  UpdatedRecord(procs[p].record, procs[p].updates, clock),
                  GetItem(store, procs[p].tracking_id))
  /\ UNCHANGED <<audits, envVars, pathVars, sopVars, gitVars, chainVars, codecVars, ingressVars, filterVars>>

\* AbendService.update_ai_remediation_approval up to the call of
\* update_abend_fields: None for a tracking ID that is not stored
UpdateAiRemediationApproval ==
  /\ clock < MaxClock
  /\ \E p \in Procs, tracking_id \in TrackingIdsAsked,
        approval_status \in { <<65, 80, 80, 82, 79, 86, 69, 68>>,    \* "APPROVED"
                              <<82, 69, 74, 69, 67, 84, 69, 68>> },  \* "REJECTED"
        comments \in {PyNone, PyStr(V_PA)} :
       /\ procs[p].pc = "idle"
       /\ LET Read(existing_record) ==
                IF existing_record = PyNone
                THEN Return(p, [NoCall EXCEPT !.op = "approval",
                                              !.status = "not_found",
                                              !.tracking_id = tracking_id])
                ELSE Goto(p, [IdleProc EXCEPT
                                !.pc = "get", !.op = "approval",
                                !.tracking_id = tracking_id,
                                !.first = existing_record,
                                !.updates =
                                  ApprovalUpdates(existing_record,
                                                  approval_status, comments,
                                                  clock)])
          IN Read(GetItem(store, tracking_id))
  /\ UNCHANGED <<store, audits, envVars, pathVars, sopVars, gitVars, chainVars, codecVars, ingressVars,
                 filterVars>>

\* update_ai_remediation_approval calls update_abend_fields
ApprovalGet ==
  \E p \in Procs : procs[p].pc = "get" /\ GetForUpdate(p, procs[p])

InitWrite ==
  /\ today = FirstDate
  /\ table = {}
  /\ failing = {}
  /\ eager = FALSE
  /\ req = Idle
  /\ lastKey = PyNone
  /\ res = NoResult
  /\ seen = <<>>
  /\ keys = {}
  /\ pages = 0
  /\ queryFailed = FALSE
  /\ NoCodec
  /\ NoIngress
  /\ wide = NoWide
  /\ NoWrites
  /\ NoPaths
  /\ NoSops
  /\ NoGitLab

NextWrite ==
  \/ CreateAbend
  \/ AuditAbendCreation
  \/ UpdateAbendFields
  \/ SaveUpdate
  \/ UpdateAiRemediationApproval
  \/ ApprovalGet

SpecWrite == InitWrite /\ [][NextWrite]_vars

(***************************************************************************)
(* Properties of the write path (specification SpecWrite).  last is the    *)
(* call that returned last; in the state right after its return            *)
(* (JustReturned) the store is as the call left it.  last.first is the     *)
(* record the call read first, last.read the record update_abend_fields    *)
(* got, last.before the record stored when it saved, last.after the item   *)
(* it put.                                                                 *)
(***************************************************************************)
JustReturned == last.at = clock - 1

\* an update that returned True on a record no other call wrote meanwhile
UpdatedAlone ==
  /\ JustReturned
  /\ last.op \in {"update", "approval"}
  /\ last.status = "ok"
  /\ last.first = last.before

\* C12: the stored generation is 1 after create_abend and, after each
\* successful update_abend_fields of a sequence of calls, one more than
\* before the update.
C12_GenerationGrowsByOne ==
  /\ (last.op = "create" /\ last.status = "ok") =>
        last.after.generation = PyInt(1)
  /\ UpdatedAlone =>
        GetItem(store, last.tracking_id).generation
          = PyInt(last.before.generation.n + 1)

\* C13: an update_abend_fields call that found its record returns True,
\* also when another call saved the record between its get and its save,
\* and the stored record is then the item this later save put.
C13_LastWriterWins ==
  (/\ last.op \in {"update", "approval"}
   /\ last.status /= "not_found"
   /\ JustReturned) =>
     /\ last.status = "ok"
     /\ last.after \in store

\* two updates of one record interleaved: the second save found a record
\* of a later generation than the one it had read
C13_Witness ==
  /\ JustReturned
  /\ last.op = "update"
  /\ last.status = "ok"
  /\ last.before.generation = PyInt(last.read.generation.n + 1)
  /\ GetItem(store, last.tracking_id) = last.after
  /\ last.after.generation = last.before.generation

\* C14: a create_abend call that saved the ABEND record returns success
\* with its tracking ID, whether or not the audit log was created, and the
\* record stays stored; the audit log is attempted, and an audit entry
\* exists, only for a record that has been saved.
C14_AuditFailureSwallowed ==
  /\ (last.op = "create" /\ last.after /= PyNone) =>
        /\ last.status = "ok"
        /\ last.tracking_id = last.after.tracking_id
        /\ GetItem(store, last.tracking_id) /= PyNone
  /\ \A a \in audits : GetItem(store, a.tracking_id) /= PyNone
  /\ \A p \in Procs :
        procs[p].pc = "audit" =>
           GetItem(store, procs[p].tracking_id) /= PyNone

\* a creation whose audit log failed
C14_Witness ==
  /\ last.op = "create"
  /\ last.status = "ok"
  /\ ~last.audited
  /\ GetItem(store, last.tracking_id) /= PyNone
  /\ \A a \in audits : a.tracking_id /= last.tracking_id

\* C15: the abended_date of every stored ABEND record is the UTC calendar
\* date of its abended_at.
C15_AbendedDateIsUtcDate ==
  \A r \in store :
     r.record_type = PyStr(V_ABEND) =>
        r.abended_date
          = PyStr(StrfTime(FromIsoDateTime(r.abended_at.s) \div 86400))

\* the tracking IDs of the stored ABEND records
StoredIds ==
  { r.tracking_id : r \in { x \in store : x.record_type = PyStr(V_ABEND) } }

\* C16: the set of the tracking IDs of the stored ABEND records changes
\* only by create_abend adding the tracking ID it generated; no other step
\* adds one, and no step removes one.
C16_TrackingIdsOnlyGrowByCreate ==
  [][\/ StoredIds' = StoredIds
     \/ \E p \in Procs :
          /\ procs[p].pc = "idle"
          /\ procs'[p].op = "create"
          /\ StoredIds' = StoredIds \cup {procs'[p].tracking_id}]_vars

\* C17: update_abend_fields and update_ai_remediation_approval, called for
\* a tracking ID without a stored record, return the not-found signal and
\* leave the store as it was.
C17_NotFoundSignal ==
  [][(/\ last'.at = clock
      /\ last'.op \in {"update", "approval"}
      /\ GetItem(store, last'.tracking_id) = PyNone)
        => (last'.status = "not_found" /\ store' = store)]_vars

\* both calls have returned not found while a record is stored
C17_Witness ==
  /\ JustReturned
  /\ last.status = "not_found"
  /\ last.op = "approval"
  /\ store /= {}
  /\ GetItem(store, last.tracking_id) = PyNone

\* C18: an approval update of a record that has remediation_metadata
\* leaves every prior key the request does not supply as it was (the
\* approval status and time are supplied, the comments when the request
\* has them), and the stored generation grows by one.
C18_ApprovalMergesMetadata ==
  (/\ UpdatedAlone
   /\ last.op = "approval"
   /\ last.before.remediation_metadata /= PyNone) =>
     LET prior == last.before.remediation_metadata
         stored == GetItem(store, last.tracking_id)
         supplied ==
           {"aiRemediationApprovalStatus", "aiRemediationApprovedAt"}
             \cup (IF last.updates[1][2].aiRemediationComments /= PyNone
                   THEN {"aiRemediationComments"} ELSE {})
     IN /\ \A k \in (DOMAIN prior) \ supplied :
             /\ k \in DOMAIN stored.remediation_metadata
             /\ stored.remediation_metadata[k] = prior[k]
        /\ stored.generation = PyInt(last.before.generation.n + 1)

\* C19: an update_abend_fields call whose map has a field name that is no
\* attribute of the record succeeds, the attributes the map names are set,
\* and no other attribute but updated_at and generation differs from
\* before.
C19_UnknownFieldIgnored ==
  (/\ UpdatedAlone
   /\ last.op = "update"
   /\ \E i \in 1..Len(last.updates) :
         last.updates[i][1] \notin DOMAIN last.before) =>
     LET stored == GetItem(store, last.tracking_id)
     IN \A a \in DOMAIN last.before :
          IF \E i \in 1..Len(last.updates) : last.updates[i][1] = a
          THEN \E i \in 1..Len(last.updates) :
                  last.updates[i][1] = a /\ stored[a] = last.updates[i][2]
          ELSE a \in {"updated_at", "generation"}
               \/ stored[a] = last.before[a]

(***************************************************************************)
(* The key of a date-range page (specification Spec).                      *)
(***************************************************************************)
\* the last index query of the latest call
LastQuery == res.calls[Len(res.calls)]

\* the index (from 0) of a date in the whole date list of the request r
IndexInRange(r, date_str) ==
  CHOOSE k \in 0..(r.end_date.n - r.start_date.n) :
     DateList(r.start_date.n, r.end_date.n)[k + 1] = date_str

\* the partition a continuation key of the index lies in
PartitionOfKey(key) ==
  IF DictHas(key, K_abended_date) /\ IsAttrS(DictGet(key, K_abended_date))
  THEN DictGet(DictGet(key, K_abended_date), K_S).s
  ELSE <<>>

\* C22: when a date-range call returns a key, the partition that filled the
\* page has more data: the key's resume_date_index is the index of that
\* partition in the whole start_date..end_date list and its inner_last_key
\* is the continuation of that partition, also when the call was resumed
\* from a key; and a call resumed from a key queries first, with success,
\* the partition its inner key lies in.
C22_ResumeKeyNamesPartition ==
  /\ (IsRangeQuery /\ res.status = "ok" /\ Truthy(res.next_key)) =>
        /\ DictGet(res.next_key, K_resume_date_index)
             = PyInt(IndexInRange(req, LastQuery.hash_key))
        /\ PartitionOfKey(DictGet(res.next_key, K_inner_last_key))
             = LastQuery.hash_key
  /\ (IsRangeQuery /\ Truthy(lastKey) /\ res.calls /= <<>>) =>
        /\ res.calls[1].hash_key
             = PartitionOfKey(DictGet(lastKey, K_inner_last_key))
        /\ res.calls[1].ok

\* the latest date-range call collected limit records, its last query left
\* the partition drained (no continuation) and later dates remain
LimitReachedInDrainedPartition ==
  /\ IsRangeQuery
  /\ res.calls /= <<>>
  /\ Collected(res.calls, Len(res.calls)) >= req.limit
  /\ LastQuery.ok
  /\ LastQuery.hash_key /= StrfTime(req.end_date.n)
  /\ ~Truthy(IndexQuery(LastQuery.hash_key,
                        {r \in table : DateRangeFilter(r, req.f)},
                        LastQuery.limit,
                        LastQuery.last_evaluated_key).last_evaluated_key)

\* C23: a date-range call whose page reaches the limit in a partition the
\* index reports as drained, with later dates left, returns with the key
\* {resume_date_index: index of the next date, inner_last_key: None}.
C23_DrainedPartitionCursor ==
  LimitReachedInDrainedPartition =>
     /\ res.status = "ok"
     /\ res.next_key
          = ResumeKey(IndexInRange(req, LastQuery.hash_key) + 1, PyNone)

(***************************************************************************)
(* The continuation of a list response (specification SpecIngress).        *)
(***************************************************************************)
\* C30: in every list response hasNext is true exactly when nextCursor is
\* not null, and the cursor of a response with hasNext is a string that
\* decodes to a pagination key.
C30_HasNextIffNextCursor ==
  (http.sent /\ resp.status = "ok") =>
     /\ resp.hasNext <=> (resp.nextCursor /= PyNone)
     /\ resp.hasNext =>
          /\ resp.nextCursor.t = "str"
          /\ Truthy(DecodeCursor(resp.nextCursor))

\* a date-range response with a continuation: its cursor holds a
\* resume_date_index
C30_Witness ==
  /\ http.sent /\ resp.status = "ok"
  /\ resp.hasNext
  /\ resp.nextCursor.t = "str"
  /\ DictHas(DecodeCursor(resp.nextCursor), K_resume_date_index)

(***************************************************************************)
(* Two consecutive dates listed by get_abends_for_date, one call a date,   *)
(* and by one get_abends_by_date_range call (specification SpecPaths).     *)
(***************************************************************************)
\* the item create_abend stores for a third ABEND of the date d whose
\* abended_at was given as 02:00 at five hours east of UTC
ZonedItem(d) ==
  [AbendItem(d, 3) EXCEPT
     !.abended_at = PyStr(IsoFormat([d |-> d, h |-> 2, off |-> 5]))]

\* the filters of the callers, with search terms
SearchFilters ==
  Filters \cup { [NoFilters EXCEPT !.search_term = PyStr(V_S0C7)],
                 [NoFilters EXCEPT !.search_term = PyStr(V_GL)] }

\* a limit no listing of two dates reaches
WholeLimit == 2 * (MaxPerDay + 1) + 1

\* a caller lists the dates d and d + 1 by both paths, without a key
ListBothPaths ==
  /\ ~both.sent
  /\ \E d \in Dates, f \in SearchFilters,
        limit \in (1..MaxLimit) \cup {WholeLimit} :
       /\ d + 1 \in Dates
       /\ both' = [sent |-> TRUE, d |-> d, f |-> f, limit |-> limit,
                   first |-> GetAbendsForDate(d, f, limit, PyNone),
                   second |-> GetAbendsForDate(d + 1, f, limit, PyNone),
                   range |-> GetAbendsByDateRange(d, d + 1, f, limit,
                                                  PyNone)]
  /\ UNCHANGED <<envVars, chainVars, codecVars, ingressVars, filterVars,
                 writeVars, sopVars, gitVars>>

InitPaths ==
  /\ today = FirstDate
  /\ table \in { TableOf(counts) \cup zoned :
                   counts \in [Dates -> 0..MaxPerDay],
                   zoned \in SUBSET { ZonedItem(d) : d \in Dates } }
  /\ failing = {}
  /\ eager \in BOOLEAN
  /\ req = Idle
  /\ lastKey = PyNone
  /\ res = NoResult
  /\ seen = <<>>
  /\ keys = {}
  /\ pages = 0
  /\ queryFailed = FALSE
  /\ NoCodec
  /\ NoIngress
  /\ wide = NoWide
  /\ NoWrites
  /\ NoPaths
  /\ NoSops
  /\ NoGitLab

NextPaths == ListBothPaths

SpecPaths == InitPaths /\ [][NextPaths]_vars

IdSet(records) == { records[i].trackingID : i \in 1..Len(records) }

\* C24: for the same filters the single-day path and the date-range path
\* match the same records: listed without reaching the limit, the records
\* of two dates returned by get_abends_for_date are those returned by
\* get_abends_by_date_range over the two dates.
C24_SamePredicateOnBothPaths ==
  (both.sent /\ both.limit = WholeLimit) =>
     /\ both.first.status = "ok"
     /\ both.second.status = "ok"
     /\ both.range.status = "ok"
     /\ IdSet(both.range.records)
          = IdSet(both.first.records) \cup IdSet(both.second.records)

\* the records are in descending order of abended_at, as instants
IsDescending(records) ==
  \A i, j \in 1..Len(records) :
     i < j => records[i].abendedAt >= records[j].abendedAt

\* C25: the records of every returned page, of a single-day query and of a
\* date-range query, are in descending order of abended_at.
C25_PagesDescending ==
  both.sent =>
     /\ both.first.status = "ok" => IsDescending(both.first.records)
     /\ both.second.status = "ok" => IsDescending(both.second.records)
     /\ both.range.status = "ok" => IsDescending(both.range.records)

(***************************************************************************)
(* app/utils/gitlab.py: GitLabClient._make_request_with_retry              *)
(* (specification SpecGitLab).                                             *)
(* A reply to a request is a response with its status, whose body is read  *)
(* (kind "response"); an aiohttp.ClientError raised by the session, the    *)
(* request or the reading of the body (kind "ClientError"); or another     *)
(* exception, such as asyncio.TimeoutError or a body that is no JSON (kind *)
(* "Exception").  An exception is [type, status].  The sleep before a      *)
(* retry changes no state and is left out.                                 *)
(***************************************************************************)
NUM_GITLAB_RETRIES == 3

Replies ==
  { [kind |-> "response", status |-> n] :
      n \in {200, 201, 202, 204, 400, 404, 500, 503} }
    \cup { [kind |-> "ClientError", status |-> 0],
           [kind |-> "Exception", status |-> 0] }

\* response.status in [HTTP_200_OK, HTTP_201_CREATED, HTTP_202_ACCEPTED]
IsSuccess(reply) ==
  reply.kind = "response" /\ reply.status \in {200, 201, 202}

\* aiohttp.ClientResponseError(status=response.status, ...)
ClientResponseError(status) ==
  [type |-> "ClientResponseError", status |-> status]

\* a loop that has no last attempt
LastAttempt_Never(attempt) == FALSE

\* the attempt is the last of range(NUM_GITLAB_RETRIES + 1)
LastAttempt(attempt) == attempt = NUM_GITLAB_RETRIES

\* the statements after the loop: raise last_exception
Exhausted(client, last_exception) ==
  [client EXCEPT !.pc = "raised", !.last_exception = last_exception,
                 !.raised = last_exception]

\* continue, or the end of an except block: the next iteration of the
\* loop, or the statements after it
NextAttempt(client, last_exception) ==
  IF LastAttempt(client.attempt) THEN Exhausted(client, last_exception)
  ELSE [client EXCEPT !.pc = "ready", !.attempt = @ + 1,
                      !.last_exception = last_exception]

\* except aiohttp.ClientError as e: last_exception = e, break at the last
\* attempt
OnClientError(client, e) ==
  IF LastAttempt(client.attempt) THEN Exhausted(client, e)
  ELSE NextAttempt(client, e)

\* the body of the try for a reply, and the except blocks
Handle(client, reply) ==
  IF reply.kind = "Exception"
  THEN [client EXCEPT !.pc = "raised",
                      !.raised = [type |-> "Exception", status |-> 0]]
  ELSE IF reply.kind = "ClientError"
  THEN OnClientError(client, [type |-> "ClientError", status |-> 0])
  ELSE IF IsSuccess(reply)
  THEN [client EXCEPT !.pc = "returned", !.data = "json"]
  ELSE IF reply.status >= 500
  THEN NextAttempt(client, ClientResponseError(reply.status))
  ELSE OnClientError(client, ClientResponseError(reply.status))

\* session.request(method, url, **kwargs) of the first attempt or of a
\* retry
SendRequest ==
  /\ gitlab.pc \in {"idle", "ready"}
  /\ gitlab' = [gitlab EXCEPT !.pc = "waiting", !.sent = @ + 1]
  /\ UNCHANGED <<envVars, chainVars, codecVars, ingressVars, filterVars,
                 writeVars, pathVars, sopVars>>

\* the request is answered, or fails
ReceiveReply ==
  /\ gitlab.pc = "waiting"
  /\ \E reply \in Replies :
       gitlab' = Handle([gitlab EXCEPT !.log = Append(@, reply)], reply)
  /\ UNCHANGED <<envVars, chainVars, codecVars, ingressVars, filterVars,
                 writeVars, pathVars, sopVars>>

InitGitLab ==
  /\ today = FirstDate
  /\ table = {}
  /\ failing = {}
  /\ eager = FALSE
  /\ req = Idle
  /\ lastKey = PyNone
  /\ res = NoResult
  /\ seen = <<>>
  /\ keys = {}
  /\ pages = 0
  /\ queryFailed = FALSE
  /\ NoCodec
  /\ NoIngress
  /\ wide = NoWide
  /\ NoWrites
  /\ NoPaths
  /\ NoSops
  /\ NoGitLab

NextGitLab == SendRequest \/ ReceiveReply

SpecGitLab == InitGitLab /\ [][NextGitLab]_vars

\* a reply the loop is to retry after: a 5xx response or a connection error
IsRetryable(reply) ==
  \/ reply.kind = "ClientError"
  \/ reply.kind = "response" /\ reply.status >= 500

\* the exception a retryable reply leaves in last_exception
ErrorOf(reply) ==
  IF reply.kind = "ClientError" THEN [type |-> "ClientError", status |-> 0]
  ELSE ClientResponseError(reply.status)

\* C28: a 4xx response is not retried: it is the last reply of the call,
\* which raises its error, and no request is sent after it; a 5xx response
\* or a connection error before the last attempt is followed by a retry.
C28_ClientErrorNotRetried ==
  \A i \in 1..Len(gitlab.log) :
     /\ (/\ gitlab.log[i].kind = "response"
         /\ gitlab.log[i].status >= 400
         /\ gitlab.log[i].status < 500) =>
           /\ i = Len(gitlab.log)
           /\ gitlab.sent = i
           /\ gitlab.pc = "raised"
           /\ gitlab.raised = ClientResponseError(gitlab.log[i].status)
     /\ (IsRetryable(gitlab.log[i]) /\ i <= NUM_GITLAB_RETRIES) =>
           \/ i < Len(gitlab.log)
           \/ gitlab.pc \in {"ready", "waiting"}

\* C29: the call sends at most NUM_GITLAB_RETRIES + 1 = 4 requests; a
\* 200, 201 or 202 response is the last reply of the call, which returns
\* without a further request; and when every attempt failed with a 5xx
\* response or a connection error the call has raised the last error.
C29_AtMostFourRequests ==
  /\ NUM_GITLAB_RETRIES + 1 = 4
  /\ gitlab.sent <= NUM_GITLAB_RETRIES + 1
  /\ \A i \in 1..Len(gitlab.log) :
        IsSuccess(gitlab.log[i]) =>
           /\ i = Len(gitlab.log)
           /\ gitlab.sent = i
           /\ gitlab.pc = "returned"
  /\ (/\ Len(gitlab.log) = NUM_GITLAB_RETRIES + 1
      /\ \A i \in 1..Len(gitlab.log) : IsRetryable(gitlab.log[i])) =>
        /\ gitlab.pc = "raised"
        /\ gitlab.sent = NUM_GITLAB_RETRIES + 1
        /\ gitlab.raised = ErrorOf(gitlab.log[Len(gitlab.log)])

\* four attempts failed, with connection errors and then a 503 response,
\* and the call raised the error of the 503
C29_Witness ==
  /\ Len(gitlab.log) = NUM_GITLAB_RETRIES + 1
  /\ gitlab.log[1].kind = "ClientError"
  /\ \A i \in 1..Len(gitlab.log) : IsRetryable(gitlab.log[i])
  /\ gitlab.log[Len(gitlab.log)].status = 503
  /\ gitlab.pc = "raised"
  /\ gitlab.raised = ClientResponseError(503)

(***************************************************************************)
(* SOP records: app/schema/sop_dynamo.py, app/dal/sop_repository.py,       *)
(* app/core/sop_service.py and the SOP endpoints (specification SpecSop).  *)
(* An item carries the attributes under their Python names.  The clock is  *)
(* read at every save and moves on after it.                               *)
(***************************************************************************)
V_SOP == <<83, 79, 80>>  \* "SOP"
V_SopPrefix == <<83, 79, 80, 95>>  \* "SOP_"
V_Runbook == <<82, 117, 110, 98, 111, 111, 107>>  \* "Runbook"
V_Restart == <<82, 101, 115, 116, 97, 114, 116>>  \* "Restart"
V_ops == <<111, 112, 115>>  \* "ops"
V_S3Url == <<115, 51, 58, 47, 47, 115, 111, 112>>  \* "s3://sop"
K_sopID == <<115, 111, 112, 73, 68>>  \* "sopID"
K_jobName == <<106, 111, 98, 78, 97, 109, 101>>  \* "jobName"
K_abendType == <<97, 98, 101, 110, 100, 84, 121, 112, 101>>  \* "abendType"
K_createdAt == <<99, 114, 101, 97, 116, 101, 100, 65, 116>>  \* "createdAt"

DateTime(now) == PyVal("datetime", now, <<>>, <<>>)

\* the SOPDynamoTable instance create_sop builds for the SOP id that ends
\* in ulid, at the instant now
SopRecord(sop_name, job_name, abend_type, created_by, ulid, now) ==
  [sop_id |-> PyStr(V_SopPrefix \o ulid),
   record_type |-> PyStr(V_SOP),
   sop_name |-> PyStr(sop_name),
   job_name |-> PyStr(job_name),
   abend_type |-> PyStr(abend_type),
   source_document_url |-> PyStr(V_S3Url),
   processed_document_urls |-> PyList(<<>>),
   created_at |-> DateTime(now),
   updated_at |-> DateTime(now),
   created_by |-> PyStr(created_by),
   updated_by |-> PyStr(created_by),
   generation |-> PyInt(1)]

\* SOPDynamoTable.save of an instance made by the constructor or by get,
\* at the instant now: the item it puts.  Neither instance has
\* _created_at_set, so created_at is set with updated_at.
SopSave(sop_record, now) ==
  [sop_record EXCEPT !.updated_at = DateTime(now),
                     !.created_at = DateTime(now),
                     !.record_type = IF Truthy(@) THEN @ ELSE PyStr(V_SOP)]

\* the table after PutItem of an item
SopPutItem(items, item) ==
  { r \in items : ~(/\ r.sop_id = item.sop_id
                    /\ r.record_type = item.record_type) } \cup {item}

\* SOPDynamoTable.get(sop_id, "SOP"); None where it raises DoesNotExist
SopGet(items, sop_id) ==
  LET found == { r \in items : /\ r.sop_id = sop_id
                               /\ r.record_type = PyStr(V_SOP) }
  IN IF found = {} THEN PyNone ELSE CHOOSE r \in found : TRUE

\* get_sop_by_id: the SOPDetailsModel of the item (its attributes but
\* record_type), or None
GetSopById(items, sop_id) ==
  LET Details(sop_record) ==
        IF sop_record = PyNone THEN PyNone
        ELSE [a \in (DOMAIN sop_record) \ {"record_type"} |-> sop_record[a]]
  IN Details(SopGet(items, sop_id))

\* the updates SOPService.update_sop builds from the request: one entry for
\* every field of UpdateSOPRequest that is not None, then updated_at
SopUpdates(request, update_time) ==
  LET fields == <<"sop_name", "job_name", "abend_type",
                  "source_document_url", "processed_document_urls",
                  "updated_by">>
      provided == SelectSeq(fields, LAMBDA a : request[a] /= PyNone)
  IN IF provided = <<>> THEN <<>>
     ELSE [i \in 1..Len(provided) |-> <<provided[i], request[provided[i]]>>]
            \o << <<"updated_at", DateTime(update_time)>> >>

\* update_sop_fields after the get: the item saved
SopUpdatedRecord(sop_record, updates, now) ==
  LET Bumped(r) == SopSave([r EXCEPT !.updated_at = DateTime(now),
                                     !.generation = PyInt(@.n + 1)], now)
  IN Bumped(ApplyUpdates(sop_record, updates))

\* a delete that removes the record and reports whether it was there
ServiceDeleteSop_Hard(items, sop_id) ==
  [success |-> SopGet(items, sop_id) /= PyNone,
   items |-> { r \in items : r.sop_id /= sop_id }]

\* SOPService.delete_sop: a placeholder that returns False
ServiceDeleteSop(items, sop_id) == [success |-> FALSE, items |-> items]

\* the order of a scan of the table: that of the keys
ScanOrder(r, q) == StrLess(r.sop_id.s, q.sop_id.s)

\* the order of JobNameIndex and AbendTypeIndex read with
\* scan_index_forward = False: created_at descending
IndexOrder(r, q) ==
  \/ r.created_at.n > q.created_at.n
  \/ r.created_at.n = q.created_at.n /\ StrLess(q.sop_id.s, r.sop_id.s)

\* the items of S in the order of an index (by_index) or of a scan
RECURSIVE InOrder(_, _)
InOrder(S, by_index) ==
  IF S = {} THEN <<>>
  ELSE LET Before(r, q) == IF by_index THEN IndexOrder(r, q)
                           ELSE ScanOrder(r, q)
           first == CHOOSE r \in S : \A q \in S \ {r} : Before(r, q)
       IN <<first>> \o InOrder(S \ {first}, by_index)

\* the last_evaluated_key of a query or scan that stopped at an item
SopKey(item, hash_attr) ==
  LET table_key == DictSet(DictSet(EmptyDict, K_sopID, AttrS(item.sop_id.s)),
                           K_record_type, AttrS(item.record_type.s))
  IN IF hash_attr = "job_name"
     THEN DictSet(DictSet(table_key, K_jobName, AttrS(item.job_name.s)),
                  K_createdAt, AttrS(IntToStr(item.created_at.n)))
     ELSE IF hash_attr = "abend_type"
     THEN DictSet(DictSet(table_key, K_abendType, AttrS(item.abend_type.s)),
                  K_createdAt, AttrS(IntToStr(item.created_at.n)))
     ELSE table_key

\* a query of an index (hash_attr is job_name or abend_type) or a scan
\* (hash_attr is "none") with a limit, iterated to its end: [records,
\* last_evaluated_key].  ordered holds the items read, in order; start_key
\* is PyNone when the keyword is not passed.
SopQuery(ordered, hash_attr, limit, start_key) ==
  LET at == IF start_key = PyNone THEN 0
            ELSE IF \E i \in 1..Len(ordered) :
                       SopKey(ordered[i], hash_attr) = start_key
            THEN CHOOSE i \in 1..Len(ordered) :
                       SopKey(ordered[i], hash_attr) = start_key
            ELSE Len(ordered)
      from == SubSeq(ordered, at + 1, Len(ordered))
      n == Min(limit, Len(from))
  IN [records |-> SubSeq(from, 1, n),
      last_evaluated_key |->
        IF n >= 1 /\ n = limit /\ (Len(from) > limit \/ eager)
        THEN SopKey(from[n], hash_attr) ELSE PyNone]

\* _convert_to_sop_model
ConvertToSopModel(record) ==
  [sopID |-> record.sop_id.s, sopName |-> record.sop_name,
   jobName |-> record.job_name, abendType |-> record.abend_type,
   createdAt |-> record.created_at, updatedAt |-> record.updated_at,
   createdBy |-> record.created_by]

\* get_sops_unified: [records, next_key]; search_term is PyNone or a
\* lower-case string without blanks around it, which the search in
\* Python and the contains() of the scan treat alike
GetSopsUnified(job_name, abend_type, search_term, limit, last_evaluated_key) ==
  LET start_key == IF Truthy(last_evaluated_key) THEN last_evaluated_key
                   ELSE PyNone
      Matches(r) == Truthy(search_term) => Contains(r.sop_name.s, search_term.s)
      Converted(page) ==
        [records |->
           LET kept == SelectSeq(page.records, Matches)
           IN IF kept = <<>> THEN <<>>
              ELSE [i \in 1..Len(kept) |-> ConvertToSopModel(kept[i])],
         next_key |-> page.last_evaluated_key]
  IN IF Truthy(job_name)
     THEN Converted(SopQuery(InOrder({ r \in sops : r.job_name = job_name },
                                     TRUE),
                             "job_name", limit, start_key))
     ELSE IF Truthy(abend_type)
     THEN Converted(SopQuery(InOrder({ r \in sops :
                                         r.abend_type = abend_type },
                                     TRUE),
                             "abend_type", limit, start_key))
     ELSE Converted(SopQuery(InOrder({ r \in sops : Matches(r) }, FALSE),
                             "none", limit, start_key))

\* GetSOPsFilter.decoded_cursor: the private attribute _decoded_cursor,
\* which nothing sets
SopDecodedCursor(cursor) == PyNone

\* SOPService.get_sops for the filters [job_name, abend_type, search,
\* limit, cursor]
ServiceGetSops(filters) ==
  LET Response(page, has_next) ==
        [data |-> page.records,
         total |-> Len(page.records) + (IF has_next THEN filters.limit ELSE 0),
         limit |-> filters.limit,
         hasNext |-> has_next,
         hasPrevious |-> filters.cursor /= PyNone,
         nextCursor |-> IF Truthy(page.next_key)
                        THEN EncodeCursor(page.next_key) ELSE PyNone,
         prevCursor |-> PyNone]
      Listed(page) == Response(page, page.next_key /= PyNone)
  IN Listed(GetSopsUnified(filters.job_name, filters.abend_type,
                           filters.search, filters.limit,
                           SopDecodedCursor(filters.cursor)))

\* the updates of SOP items a behaviour saves at most
MaxSopWrites == 2

\* the requests of the callers of update_sop
NoUpdate == [sop_name |-> PyNone, job_name |-> PyNone, abend_type |-> PyNone,
             source_document_url |-> PyNone,
             processed_document_urls |-> PyNone, updated_by |-> PyNone]

UpdateSOPRequests ==
  { NoUpdate,
    [NoUpdate EXCEPT !.sop_name = PyStr(V_Restart),
                     !.updated_by = PyStr(V_ops)] }

\* the SOP ids the callers ask for: those stored, and one that is not
SopIdsAsked == { r.sop_id : r \in sops } \cup { PyStr(V_SopPrefix \o V_PA) }

SopReturn(call) ==
  sopLast' = [NoSopCall EXCEPT !.op = call.op, !.status = call.status,
                               !.sop_id = call.sop_id,
                               !.request = call.request,
                               !.response = call.response,
                               !.before = call.before, !.after = call.after]

\* the SOPs stored at the start: two that POST /sops created at the
\* instant 0 with the SOP ids that end in 00 and 01
StoredSops ==
  { SopSave(SopRecord(V_Runbook, V_PAY, V_S0C7, V_system, Digit2(i), 0), 0) :
      i \in 0..1 }

\* PUT /sops/{sop_id}: SOPService.update_sop up to the call of
\* update_sop_fields.  A None of the service is answered with 404.  The
\* response of a request without fields carries the generation read.
UpdateSop ==
  /\ \E p \in Procs, sop_id \in SopIdsAsked, request \in UpdateSOPRequests :
       LET existing_sop == GetSopById(sops, sop_id)
           updates == SopUpdates(request, clock)
           call == [op |-> "update", status |-> "not_found",
                    sop_id |-> sop_id, request |-> request,
                    response |-> PyNone, before |-> SopGet(sops, sop_id),
                    after |-> SopGet(sops, sop_id)]
       IN /\ sopProcs[p].pc = "idle"
          /\ IF existing_sop = PyNone
             THEN SopReturn(call) /\ UNCHANGED sopProcs
             ELSE IF updates = <<>>
             THEN /\ SopReturn([call EXCEPT
                                  !.status = "ok",
                                  !.response =
                                    [sopID |-> sop_id,
                                     updatedAt |-> existing_sop.updated_at,
                                     generation |-> existing_sop.generation]])
                  /\ UNCHANGED sopProcs
             ELSE /\ sopProcs' = [sopProcs EXCEPT ![p] =
                                    [pc |-> "update_sop_fields",
                                     sop_id |-> sop_id, request |-> request,
                                     existing_sop |-> existing_sop,
                                     updates |-> updates,
                                     update_time |-> clock]]
                  /\ UNCHANGED sopLast
  /\ UNCHANGED <<sops, writeVars, envVars, chainVars, codecVars, ingressVars,
                 filterVars, pathVars, gitVars>>

\* update_sop_fields, from SOPDynamoTable.get to the save, and the
\* UpdateSOPResponse of the service.  DoesNotExist is answered with False,
\* which the service turns into None.
UpdateSopFields ==
  /\ clock <= MaxSopWrites
  /\ \E p \in Procs :
       LET proc == sopProcs[p]
           sop_record == SopGet(sops, proc.sop_id)
           saved == SopUpdatedRecord(sop_record, proc.updates, clock)
           call == [op |-> "update", status |-> "not_found",
                    sop_id |-> proc.sop_id, request |-> proc.request,
                    response |-> PyNone, before |-> sop_record,
                    after |-> sop_record]
       IN /\ proc.pc = "update_sop_fields"
          /\ sopProcs' = [sopProcs EXCEPT ![p] = IdleSop]
          /\ IF sop_record = PyNone
             THEN SopReturn(call) /\ UNCHANGED sops
             ELSE /\ sops' = SopPutItem(sops, saved)
                  /\ SopReturn([call EXCEPT
                                  !.status = "ok",
                                  !.response =
                                    [sopID |-> proc.sop_id,
                                     updatedAt |-> DateTime(proc.update_time),
                                     generation |->
                                       PyInt(proc.existing_sop.generation.n
                                               + 1)],
                                  !.after = saved])
  /\ clock' = clock + 1
  /\ UNCHANGED <<store, audits, procs, last, envVars, chainVars, codecVars,
                 ingressVars, filterVars, pathVars, gitVars>>

\* DELETE /sops/{sop_id}: a False of the service is answered with 404
DeleteSop ==
  /\ \E sop_id \in SopIdsAsked :
       LET deleted == ServiceDeleteSop(sops, sop_id)
       IN /\ sops' = deleted.items
          /\ SopReturn([op |-> "delete",
                        status |-> IF deleted.success THEN "ok"
                                   ELSE "not_found",
                        sop_id |-> sop_id, request |-> <<>>,
                        response |-> PyBool(deleted.success),
                        before |-> SopGet(sops, sop_id),
                        after |-> SopGet(deleted.items, sop_id)])
  /\ UNCHANGED <<sopProcs, writeVars, envVars, chainVars, codecVars,
                 ingressVars, filterVars, pathVars, gitVars>>

SopList(filters, previous) ==
  /\ SopReturn([op |-> "list", status |-> "ok", sop_id |-> PyNone,
                request |-> filters, response |-> ServiceGetSops(filters),
                before |-> previous, after |-> PyNone])
  /\ UNCHANGED <<sops, sopProcs, writeVars, envVars, chainVars, codecVars,
                 ingressVars, filterVars, pathVars, gitVars>>

\* GET /sops without a cursor
GetSops ==
  \E job_name \in {PyNone, PyStr(V_PAY)}, abend_type \in {PyNone, PyStr(V_S0C7)},
     limit \in 1..MaxLimit :
     /\ job_name = PyNone \/ abend_type = PyNone
     /\ SopList([job_name |-> job_name, abend_type |-> abend_type,
                 search |-> PyNone, limit |-> limit, cursor |-> PyNone],
                PyNone)

\* the client asks for the next page: the same request with the nextCursor
\* of the response
FollowSopCursor ==
  /\ sopLast.op = "list"
  /\ sopLast.response.hasNext
  /\ sopLast.request.cursor = PyNone
  /\ SopList([sopLast.request EXCEPT !.cursor = sopLast.response.nextCursor],
             sopLast.response)

InitSop ==
  /\ today = FirstDate
  /\ table = {}
  /\ failing = {}
  /\ eager \in BOOLEAN
  /\ req = Idle
  /\ lastKey = PyNone
  /\ res = NoResult
  /\ seen = <<>>
  /\ keys = {}
  /\ pages = 0
  /\ queryFailed = FALSE
  /\ NoCodec
  /\ NoIngress
  /\ wide = NoWide
  /\ store = {}
  /\ audits = {}
  /\ procs = [p \in Procs |-> IdleProc]
  /\ clock = 1
  /\ last = NoCall
  /\ NoPaths
  /\ sops = StoredSops
  /\ sopProcs = [p \in Procs |-> IdleSop]
  /\ sopLast = NoSopCall
  /\ NoGitLab

NextSop ==
  \/ UpdateSop
  \/ UpdateSopFields
  \/ DeleteSop
  \/ GetSops
  \/ FollowSopCursor

SpecSop == InitSop /\ [][NextSop]_vars

\* C21: delete_sop removes and changes no SOP record and never reports
\* success: for a stored and for an unknown sop_id it returns False, which
\* the endpoint answers with an error, and the stored SOPs are the same
\* before and after.
C21_DeleteIsNotImplemented ==
  [][DeleteSop => /\ sops' = sops
                  /\ sopLast'.response = PyBool(FALSE)
                  /\ sopLast'.status = "not_found"]_vars

\* a delete of a stored SOP has returned, and the SOP is still stored
C21_Witness ==
  /\ sopLast.op = "delete"
  /\ sopLast.before /= PyNone
  /\ SopGet(sops, sopLast.sop_id) /= PyNone
  /\ sopLast.response = PyBool(FALSE)

\* C26: an update_sop call that returns a success response for a stored
\* SOP changes only the fields the request provides (and updated_at and
\* generation), increases the stored generation by exactly 1, and reports
\* in the response the generation stored after the update.
C26_UpdateBumpsGeneration ==
  (sopLast.op = "update" /\ sopLast.status = "ok") =>
     /\ \A a \in DOMAIN sopLast.before :
          IF a \in DOMAIN sopLast.request /\ sopLast.request[a] /= PyNone
          THEN sopLast.after[a] = sopLast.request[a]
          ELSE a \in {"updated_at", "generation"}
               \/ sopLast.after[a] = sopLast.before[a]
     /\ sopLast.after.generation = PyInt(sopLast.before.generation.n + 1)
     /\ sopLast.response.generation = sopLast.after.generation

\* C27: a get_sops request that carries the nextCursor of a response with
\* hasNext, with the same filters, continues after the last record of that
\* response: it returns none of the records of that response.
C27_CursorContinues ==
  (sopLast.op = "list" /\ sopLast.request.cursor /= PyNone) =>
     \A i \in 1..Len(sopLast.response.data) :
        \A j \in 1..Len(sopLast.before.data) :
           sopLast.response.data[i].sopID /= sopLast.before.data[j].sopID

====
